---- MODULE Spec2Model ----
(***************************************************************************)
(* A model of the attpc_envoy orchestration core: the envoys (one async    *)
(* task per remote module and role), the Embassy (the channels between the *)
(* envoys and the synchronous control thread), the StatusManager and the   *)
(* transition functions that sequence ECC operations across the modules.   *)
(***************************************************************************)
EXTENDS Integers, Sequences, FiniteSets, TLC

(***************************************************************************)
(* Bounds of the model.  The source runs 12 modules with an inbound        *)
(* channel of 10 messages per envoy and a result channel of 33 messages.   *)
(* MaxBatch bounds the messages handed to the StatusManager when it is     *)
(* exercised on its own, MaxStateCode the state codes its records hold     *)
(* then, and MaxSeconds the duration of a run in seconds.  The source      *)
(* starts its rate graphs with 10 points; MaxPoints bounds the points a     *)
(* graph is asked to keep and MaxRate the rates added to it.               *)
(***************************************************************************)
NUMBER_OF_MODULES == 3
InboundCapacity == 1
ResultCapacity == 1
MaxBatch == 2
MaxStateCode == 7
MaxSeconds == 7322
MaxPoints == 3
MaxRate == 2

MUTANT_ID == NUMBER_OF_MODULES - 1
Ids == 0..(NUMBER_OF_MODULES - 1)
CoBoIds == 0..(NUMBER_OF_MODULES - 2)

\* The ids lo..hi as a sequence in increasing order: (lo..hi).collect()
RECURSIVE Range(_, _)
Range(lo, hi) == IF lo > hi THEN <<>> ELSE <<lo>> \o Range(lo + 1, hi)

all_ids == Range(0, NUMBER_OF_MODULES - 1)
all_ids_but_mutant == Range(0, NUMBER_OF_MODULES - 2)

(***************************************************************************)
(* ECCStatus and ECCOperation (ecc_operation.rs)                           *)
(***************************************************************************)
ECCStatusValues ==
    {"Offline", "Busy", "Idle", "Prepared", "Described", "Ready", "Running",
     "ErrorStat", "Inconsistent"}

ECCOperationValues ==
    {"Describe", "Prepare", "Configure", "Start", "Undo", "Breakup", "Stop", "Invalid"}

\* impl From<ECCStatus> for i32
ECCStatus_into_i32(value) ==
    CASE value = "Offline" -> 0
      [] value = "Idle" -> 1
      [] value = "Prepared" -> 2
      [] value = "Described" -> 3
      [] value = "Ready" -> 4
      [] value = "Running" -> 5
      [] value = "Busy" -> 6
      [] OTHER -> -1

\* impl From<i32> for ECCStatus
ECCStatus_from_i32(value) ==
    CASE value = 0 -> "Offline"
      [] value = 1 -> "Idle"
      [] value = 2 -> "Described"
      [] value = 3 -> "Prepared"
      [] value = 4 -> "Ready"
      [] value = 5 -> "Running"
      [] value = 6 -> "Busy"
      [] OTHER -> "ErrorStat"

get_forward_operation(status) ==
    CASE status = "Idle" -> "Describe"
      [] status = "Described" -> "Prepare"
      [] status = "Prepared" -> "Configure"
      [] OTHER -> "Invalid"

get_backward_operation(status) ==
    CASE status = "Ready" -> "Breakup"
      [] status = "Prepared" -> "Undo"
      [] status = "Described" -> "Undo"
      [] OTHER -> "Invalid"

\* Ready taken for a status with a forward operation
can_go_forward_with_ready(status) == status \in {"Idle", "Described", "Prepared", "Ready"}

can_go_forward(status) == status \in {"Idle", "Described", "Prepared"}

can_go_backward(status) == status \in {"Ready", "Prepared", "Described"}

(***************************************************************************)
(* Messages (message.rs): kind, module id and a body.  The body of a       *)
(* status message is the state code of the ECCStatusResponse, the body of  *)
(* an operation response its error code, the body of a command the         *)
(* operation.                                                              *)
(***************************************************************************)
Message(kind, id, body) == [kind |-> kind, id |-> id, body |-> body]

compose_ecc_op(operation, id) == Message("ECCOperation", id, operation)

\* The response of an operation carries the kind that
\* StatusManager::handle_messages releases the hold on
compose_ecc_response(error_code, id) == Message("ECCOpResponse", id, error_code)

compose_ecc_status(state, id) == Message("ECCStatus", id, state)

\* The body of a monitor message is "default" for SurveyorResponse::default()
\* or SentryStatus::default(), and "record" for a parsed report
compose_surveyor_response(response, id) == Message("Surveyor", id, response)

compose_sentry_status(status, id) == Message("SentryStatus", id, status)

VARIABLES
    ecc_status,     \* StatusManager.ecc_status[id].state, an i32 state code
    ecc_holds,      \* StatusManager.ecc_holds[id]
    is_running,     \* Embassy.is_running
    cancel_some,    \* Embassy.cancel is Some(broadcast sender)
    envoy_reciever_some, \* Embassy.envoy_reciever is Some(receiver)
    cancelled,      \* a cancel message was broadcast to the envoys alive then
    handles,        \* Embassy.handles: "None" or "Some"
    ecc_senders,    \* per module, the inbound channel of its transition envoy
    results,        \* the shared result channel (envoy_tx -> embassy_rx)
    transition_envoy, \* per module: "none" | "recv" | "send" | "done"
    transition_out,   \* per module: the response the envoy is sending
    status_envoy,     \* per module: "none" | "sleep" | "send" | "done"
    status_out,       \* per module: the outcome of the status request under way
    surveyor_envoy,   \* per front-end: "none" | "sleep" | "send" | "done" | "panicked"
    surveyor_out,     \* per front-end: the outcome of the last status request
    sentry_envoy,     \* per module: "none" | "sleep" | "send" | "done"
    sentry_out,       \* per module: the outcome of the last status request
    remote,         \* per module: the state code the remote ECC server is in
    plan,           \* the control thread: what is left of the running call
    fn,             \* the control thread: the public function running
    entry_op,       \* forward_transition_all: the operation matched at entry
    ret,            \* the error of the call that returned in this frame
    sent,           \* the commands the running call has delivered
    panicked,       \* the control thread panicked
    inbox,          \* a StatusManager on its own: the messages still to be
                    \* handled and the batch of the last handle_messages
    query,          \* a StatusManager on its own: the last query and what
                    \* it returned
    run_duration,   \* whole seconds since EnvoyApp.run_start_time
    graph           \* a RateGraph: its points, oldest first, and max_points

vars == <<ecc_status, ecc_holds, is_running, cancel_some, envoy_reciever_some,
          cancelled, handles, ecc_senders, results, transition_envoy,
          transition_out, status_envoy, status_out, surveyor_envoy, surveyor_out,
          sentry_envoy, sentry_out, remote, plan, fn, entry_op, ret, sent,
          panicked, inbox, query, run_duration, graph>>

sm_vars == <<ecc_status, ecc_holds>>
embassy_vars == <<is_running, cancel_some, envoy_reciever_some, cancelled, handles>>
channel_vars == <<ecc_senders, results>>
ecc_envoy_vars == <<transition_envoy, transition_out, status_envoy, status_out>>
monitor_vars == <<surveyor_envoy, surveyor_out, sentry_envoy, sentry_out>>
envoy_vars == <<ecc_envoy_vars, monitor_vars, remote>>
control_vars == <<plan, fn, entry_op, ret, sent, panicked>>

(***************************************************************************)
(* StatusManager (status_manager.rs), as functions of its fields           *)
(***************************************************************************)
get_ecc_status(status, id) == ECCStatus_from_i32(status[id])

\* Without the loop over the records
get_system_ecc_status_of_first(status) == ECCStatus_from_i32(status[0])

get_system_ecc_status(status) ==
    IF \E id \in Ids : status[0] # status[id]
    THEN "Inconsistent"
    ELSE ECCStatus_from_i32(status[0])

is_system_ready(status) == get_system_ecc_status(status) = "Ready"

is_system_running(status) == get_system_ecc_status(status) = "Running"

\* Looks at the first front-end only
is_all_but_mutant_running_first_only(status) ==
    ECCStatus_from_i32(status[0]) = "Running"

is_all_but_mutant_running(status) ==
    /\ \A id \in CoBoIds : status[0] = status[id]
    /\ ECCStatus_from_i32(status[0]) = "Running"

\* Looks at the first front-end only
is_all_but_mutant_ready_first_only(status) ==
    ECCStatus_from_i32(status[0]) = "Ready"

is_all_but_mutant_ready(status) ==
    /\ \A id \in CoBoIds : status[0] = status[id]
    /\ ECCStatus_from_i32(status[0]) = "Ready"

is_mutant_stopped(status) == get_ecc_status(status, MUTANT_ID) = "Running"

is_mutant_prepared(status) == get_ecc_status(status, MUTANT_ID) = "Prepared"

is_mutant_ready(status) == get_ecc_status(status, MUTANT_ID) = "Ready"

\* Without the two ordering branches
can_ecc_go_forward_by_own_state(status, id) == can_go_forward(get_ecc_status(status, id))

can_ecc_go_forward(status, id) ==
    IF get_ecc_status(status, id) = "Described" /\ id # MUTANT_ID
    THEN get_ecc_status(status, MUTANT_ID) \in {"Prepared", "Ready"}
    ELSE IF get_ecc_status(status, id) = "Prepared" /\ id = MUTANT_ID
    THEN is_all_but_mutant_ready(status)
    ELSE can_go_forward(get_ecc_status(status, id))

\* set_ecc_busy on the pair sm = <<ecc_status, ecc_holds>>
set_ecc_busy(sm, id) ==
    IF id > MUTANT_ID
    THEN sm
    ELSE <<[sm[1] EXCEPT ![id] = ECCStatus_into_i32("Busy")],
           [sm[2] EXCEPT ![id] = TRUE]>>

\* The ECCStatus arm without the test of the hold flag
handle_message_ignoring_hold(sm, message) ==
    CASE message.kind = "ECCOpResponse" ->
            <<sm[1], [sm[2] EXCEPT ![message.id] = FALSE]>>
      [] message.kind = "ECCStatus" ->
            <<[sm[1] EXCEPT ![message.id] = message.body], sm[2]>>
      [] OTHER -> sm

\* One iteration of the loop of handle_messages
handle_message(sm, message) ==
    CASE message.kind = "ECCOpResponse" ->
            <<sm[1], [sm[2] EXCEPT ![message.id] = FALSE]>>
      [] message.kind = "ECCStatus" ->
            IF ~sm[2][message.id]
            THEN <<[sm[1] EXCEPT ![message.id] = message.body], sm[2]>>
            ELSE sm
      [] OTHER -> sm

RECURSIVE handle_messages(_, _)
handle_messages(sm, messages) ==
    IF messages = <<>>
    THEN sm
    ELSE handle_messages(handle_message(sm, Head(messages)), Tail(messages))

\* The SentryStatus arm writes sentry_status[module_id], a vector of
\* NUMBER_OF_MODULES - 1 records: an index past its end panics
handle_messages_panics(messages) ==
    \E i \in 1..Len(messages) :
        messages[i].kind = "SentryStatus" /\ messages[i].id >= NUMBER_OF_MODULES - 1

(***************************************************************************)
(* The remote ECC servers.  A server is in one of the states Idle(1),      *)
(* Described(2), Prepared(3), Ready(4), Running(5), reported as the state  *)
(* code of its status response; an operation moves it along the state      *)
(* machine of get_forward_operation / get_backward_operation, and an       *)
(* operation it cannot take from its state is answered with an error code  *)
(* and changes nothing.                                                    *)
(***************************************************************************)
RemoteStates == 1..5

RemoteApplies(operation, state) ==
    \/ operation = "Describe" /\ state = 1
    \/ operation = "Prepare" /\ state = 2
    \/ operation = "Configure" /\ state = 3
    \/ operation = "Start" /\ state = 4
    \/ operation = "Stop" /\ state = 5
    \/ operation = "Undo" /\ state \in {2, 3}
    \/ operation = "Breakup" /\ state = 4

RemoteNext(operation, state) ==
    IF ~RemoteApplies(operation, state) THEN state
    ELSE IF operation \in {"Describe", "Prepare", "Configure", "Start"} THEN state + 1
    ELSE state - 1

(***************************************************************************)
(* Embassy (embassy.rs)                                                    *)
(***************************************************************************)
\* An envoy task that has not returned holds a clone of the result sender
\* and its subscription to the cancel broadcast.
EnvoysAlive ==
    {<<"transition", id>> : id \in {i \in Ids : transition_envoy[i] \in {"recv", "send"}}}
        \cup {<<"status", id>> : id \in {i \in Ids : status_envoy[i] \in {"sleep", "send"}}}
        \cup {<<"surveyor", id>> : id \in {i \in CoBoIds : surveyor_envoy[i] \in {"sleep", "send"}}}
        \cup {<<"sentry", id>> : id \in {i \in Ids : sentry_envoy[i] \in {"sleep", "send"}}}

\* One try_recv instead of the loop
poll_messages_first_only ==
    IF ~envoy_reciever_some
    THEN [ok |-> TRUE, messages |-> <<>>]
    ELSE IF EnvoysAlive = {}
    THEN [ok |-> FALSE, messages |-> <<>>]
    ELSE [ok |-> TRUE, messages |-> IF results = <<>> THEN <<>> ELSE <<Head(results)>>]

\* poll_messages: the batch returned (Ok) or the error, and the channel after
poll_messages ==
    IF ~envoy_reciever_some
    THEN [ok |-> TRUE, messages |-> <<>>]
    ELSE IF EnvoysAlive = {}
    THEN [ok |-> FALSE, messages |-> <<>>]
    ELSE [ok |-> TRUE, messages |-> results]

\* poll_embassy of transition.rs: the StatusManager after the call
poll_embassy(sm) ==
    IF ~is_running
    THEN sm
    ELSE IF poll_messages.ok
    THEN handle_messages(sm, poll_messages.messages)
    ELSE sm

\* poll_embassy panics when handle_messages does
poll_embassy_panics ==
    is_running /\ poll_messages.ok /\ handle_messages_panics(poll_messages.messages)

\* The result channel after poll_embassy
results_after_poll == IF is_running /\ envoy_reciever_some THEN <<>> ELSE results

(***************************************************************************)
(* The control thread.  A call of a transition function is the sequence of *)
(* the steps it has left: transition_ecc over a list of ids ("tx"), a      *)
(* direct submit_message ("submit", with q when its error is returned by   *)
(* the ? operator), a blocking loop of poll_embassy until a StatusManager  *)
(* predicate holds ("wait"), and the join of Embassy::shutdown ("join").   *)
(***************************************************************************)
Instr(k, ids, fwd, pred, id, op, q) ==
    [k |-> k, ids |-> ids, fwd |-> fwd, pred |-> pred, id |-> id, op |-> op, q |-> q]

Tx(ids, is_forward) == Instr("tx", ids, is_forward, "", 0, "", FALSE)
Wait(pred) == Instr("wait", <<>>, FALSE, pred, 0, "", FALSE)
Submit(id, op, q) == Instr("submit", <<>>, FALSE, "", id, op, q)
Join == Instr("join", <<>>, FALSE, "", 0, "", FALSE)

\* for id in ids { submit_message(compose(op, id)) }
RECURSIVE SubmitEach(_, _, _)
SubmitEach(ids, op, q) ==
    IF ids = <<>> THEN <<>> ELSE <<Submit(Head(ids), op, q)>> \o SubmitEach(Tail(ids), op, q)

\* The predicate a blocking loop breaks on
Holds(pred, status) ==
    CASE pred = "is_mutant_prepared" -> is_mutant_prepared(status)
      [] pred = "is_mutant_ready" -> is_mutant_ready(status)
      [] pred = "is_mutant_stopped" -> is_mutant_stopped(status)
      [] pred = "is_all_but_mutant_ready" -> is_all_but_mutant_ready(status)
      [] pred = "is_all_but_mutant_running" -> is_all_but_mutant_running(status)
      [] OTHER -> FALSE

\* transition_ecc(ids, is_forward): returns at once on an empty list
transition_ecc(ids, is_forward) == IF ids = <<>> THEN <<>> ELSE <<Tx(ids, is_forward)>>

\* Without the blocking loop
forward_mutant_prepared_not_blocking ==
    transition_ecc(<<MUTANT_ID>>, TRUE)

\* The loop breaking on the master Ready
forward_mutant_ready_blocking ==
    transition_ecc(<<MUTANT_ID>>, TRUE) \o <<Wait("is_mutant_ready")>>

forward_mutant_prepared_blocking ==
    transition_ecc(<<MUTANT_ID>>, TRUE) \o <<Wait("is_mutant_prepared")>>

forward_cobos_ready_blocking ==
    transition_ecc(all_ids_but_mutant, TRUE) \o <<Wait("is_all_but_mutant_ready")>>

\* The body of forward_transition_all for the operation matched at entry
forward_transition_all(operation) ==
    CASE operation = "Describe" -> transition_ecc(all_ids, TRUE)
      [] operation = "Prepare" ->
            forward_mutant_prepared_blocking \o transition_ecc(all_ids_but_mutant, TRUE)
      [] operation = "Configure" ->
            forward_cobos_ready_blocking \o transition_ecc(<<MUTANT_ID>>, TRUE)
      [] OTHER -> <<>>

backward_transition_all == transition_ecc(all_ids, FALSE)

start_mutant == <<Submit(MUTANT_ID, "Start", TRUE)>>

\* The cycle run over every module
reconfigure_all_blocking ==
    transition_ecc(all_ids, FALSE) \o <<Wait("is_mutant_prepared")>>
        \o transition_ecc(all_ids, TRUE) \o <<Wait("is_mutant_ready")>>

reconfigure_mutant_blocking ==
    transition_ecc(<<MUTANT_ID>>, FALSE) \o <<Wait("is_mutant_prepared")>>
        \o transition_ecc(<<MUTANT_ID>>, TRUE) \o <<Wait("is_mutant_ready")>>

stop_mutant_blocking ==
    <<Submit(MUTANT_ID, "Stop", TRUE), Wait("is_mutant_stopped")>>

start_cobos_blocking ==
    SubmitEach(all_ids_but_mutant, "Start", TRUE) \o <<Wait("is_all_but_mutant_running")>>

stop_cobos == SubmitEach(all_ids_but_mutant, "Stop", TRUE)

\* EnvoyApp::start_run after the run number check, and EnvoyApp::stop_run up
\* to the last Stop: the same steps with the submit errors logged
start_run ==
    transition_ecc(<<MUTANT_ID>>, FALSE) \o <<Wait("is_mutant_prepared")>>
        \o transition_ecc(<<MUTANT_ID>>, TRUE) \o <<Wait("is_mutant_ready")>>
        \o SubmitEach(all_ids_but_mutant, "Start", FALSE)
        \o <<Wait("is_all_but_mutant_running"), Submit(MUTANT_ID, "Start", FALSE)>>

stop_run ==
    <<Submit(MUTANT_ID, "Stop", FALSE), Wait("is_mutant_stopped")>>
        \o SubmitEach(all_ids_but_mutant, "Stop", FALSE)

Idle == plan = <<>> /\ ~panicked

\* The control thread goes on with the steps `rest` after delivering the
\* commands `delivered`, or returns Ok
Continue(rest, delivered) ==
    /\ plan' = rest
    /\ IF rest = <<>>
       THEN fn' = "idle" /\ ret' = "none" /\ entry_op' = "none" /\ sent' = <<>>
       ELSE sent' = sent \o delivered /\ UNCHANGED <<fn, ret, entry_op>>

\* The control thread returns the error `error`
Return(error) ==
    /\ plan' = <<>>
    /\ fn' = "idle"
    /\ ret' = error
    /\ entry_op' = "none"
    /\ sent' = <<>>

\* A public function is called from the idle control thread
Call(name, steps) ==
    /\ Idle
    /\ plan' = steps
    /\ fn' = IF steps = <<>> THEN "idle" ELSE name
    /\ ret' = "none"
    /\ UNCHANGED <<sent, panicked>>


\* What an envoy holds while it has nothing to send
NoMessage == Message("None", 0, 0)
NoResponse == NoMessage
NoStatus == [failed |-> FALSE, message |-> NoMessage]
NoReport == [response |-> "none", message |-> NoMessage]
NoInbox == [pending |-> <<>>, handled |-> <<>>]
NoQuery == [fn |-> "none", id |-> 0, value |-> "none", turn |-> 0]
\* A query returned `value`: turn tells one call from the next
\* RateGraph::new(name, max_points)
RateGraph_new(max_points) == [points |-> <<>>, max_points |-> max_points]

\* The graphs as EnvoyApp creates them
NoGraph == RateGraph_new(MaxPoints)

Asked(name, id, value) ==
    [fn |-> name, id |-> id, value |-> value, turn |-> 1 - query.turn]

(***************************************************************************)
(* The state after construction: StatusManager::new(), Embassy::new(), no  *)
(* envoy spawned, the control thread between two frames.  The remote ECC   *)
(* servers are all in the state `state`.                                   *)
(***************************************************************************)
ConstructedWith(status, state) ==
    /\ ecc_status = status
    /\ ecc_holds = [id \in Ids |-> FALSE]
    /\ is_running = FALSE
    /\ cancel_some = FALSE
    /\ envoy_reciever_some = FALSE
    /\ cancelled = FALSE
    /\ handles = "None"
    /\ ecc_senders = <<>>
    /\ results = <<>>
    /\ transition_envoy = [id \in Ids |-> "none"]
    /\ transition_out = [id \in Ids |-> NoResponse]
    /\ status_envoy = [id \in Ids |-> "none"]
    /\ status_out = [id \in Ids |-> NoStatus]
    /\ surveyor_envoy = [id \in CoBoIds |-> "none"]
    /\ surveyor_out = [id \in CoBoIds |-> NoReport]
    /\ sentry_envoy = [id \in Ids |-> "none"]
    /\ sentry_out = [id \in Ids |-> NoReport]
    /\ remote = [id \in Ids |-> state]
    /\ plan = <<>>
    /\ fn = "idle"
    /\ entry_op = "none"
    /\ ret = "none"
    /\ sent = <<>>
    /\ panicked = FALSE
    /\ query = NoQuery

\* ECCStatusResponse::default() has the state code 0
Constructed(state) == ConstructedWith([id \in Ids |-> 0], state)

Init == Constructed(1) /\ inbox = NoInbox /\ run_duration = 0 /\ graph = NoGraph

(***************************************************************************)
(* Embassy::startup, from the Connect button (enabled while !is_running):  *)
(* startup_ecc_envoys spawns a transition envoy and a status envoy per     *)
(* module, startup_surveyor_envoys a surveyor envoy per front-end.         *)
(***************************************************************************)
\* Embassy::startup itself, which tests nothing: new channels and new envoy
\* tasks replace the fields of the embassy (the envoys of an earlier startup
\* lose their cancel sender and their result receiver, and end)
call_startup ==
    /\ Idle
    /\ ecc_senders' = [id \in Ids |-> <<>>]
    /\ results' = <<>>
    /\ envoy_reciever_some' = TRUE
    /\ cancel_some' = TRUE
    /\ cancelled' = FALSE
    /\ is_running' = TRUE
    /\ handles' = "Some"
    /\ transition_envoy' = [id \in Ids |-> "recv"]
    /\ status_envoy' = [id \in Ids |-> "sleep"]
    /\ surveyor_envoy' = [id \in CoBoIds |-> "sleep"]
    /\ UNCHANGED <<transition_out, status_out, surveyor_out, sentry_envoy, sentry_out,
                   remote, sm_vars, control_vars, inbox, query, run_duration, graph>>

\* The Connect button
startup == ~is_running /\ call_startup

(***************************************************************************)
(* ECCEnvoy::wait_for_transition, the task of the transition envoy of id   *)
(***************************************************************************)
\* The envoy after submit_transition(message) ended with `outcome`: "ok" (a
\* response was parsed, whatever its error code) or "failed" (the request or
\* the parse of the response returned an error, which the ? operator
\* returns from the loop)
after_submit_transition(outcome) == IF outcome = "ok" THEN "send" ELSE "done"

\* The cancel branch of the select!
wait_for_transition_cancel(id) ==
    /\ transition_envoy[id] = "recv"
    /\ cancelled
    /\ transition_envoy' = [transition_envoy EXCEPT ![id] = "done"]
    /\ UNCHANGED <<transition_out, status_envoy, status_out, monitor_vars, remote,
                   sm_vars, embassy_vars, channel_vars, control_vars, inbox, query, run_duration, graph>>

\* The incoming branch: the command is taken and submit_transition run.  The
\* remote answers "ok" (it executes the operation if its state allows it and
\* reports an error code otherwise), "remote_error" (it reports an error
\* code and changes nothing) or the request fails.
wait_for_transition_recv(id) ==
    /\ transition_envoy[id] = "recv"
    /\ ecc_senders[id] # <<>>
    /\ LET operation == Head(ecc_senders[id]).body IN
       \E outcome \in {"ok", "remote_error", "failed"} :
          /\ ecc_senders' = [ecc_senders EXCEPT ![id] = Tail(@)]
          /\ remote' = [remote EXCEPT ![id] =
                            IF outcome = "ok" THEN RemoteNext(operation, @) ELSE @]
          /\ transition_envoy' = [transition_envoy EXCEPT ![id] =
                            after_submit_transition(IF outcome = "failed" THEN "failed" ELSE "ok")]
          /\ transition_out' = [transition_out EXCEPT ![id] =
                            IF outcome = "failed" THEN @
                            ELSE compose_ecc_response(
                                    IF outcome = "ok" /\ RemoteApplies(operation, remote[id])
                                    THEN 0 ELSE 1, id)]
    /\ UNCHANGED <<results, status_envoy, status_out, monitor_vars, sm_vars,
                   embassy_vars, control_vars, inbox, query, run_duration, graph>>

\* The incoming branch in two steps.  First the command is taken from the
\* inbound channel and the request of submit_transition is under way
wait_for_transition_take(id) ==
    /\ transition_envoy[id] = "recv"
    /\ ecc_senders[id] # <<>>
    /\ ecc_senders' = [ecc_senders EXCEPT ![id] = Tail(@)]
    /\ transition_envoy' = [transition_envoy EXCEPT ![id] = "call"]
    /\ transition_out' = [transition_out EXCEPT ![id] = Head(ecc_senders[id])]
    /\ UNCHANGED <<results, status_envoy, status_out, monitor_vars, remote, sm_vars,
                   embassy_vars, control_vars, inbox, query, run_duration, graph>>

\* Then the request ends, as in wait_for_transition_recv
wait_for_transition_call(id) ==
    /\ transition_envoy[id] = "call"
    /\ LET operation == transition_out[id].body IN
       \E outcome \in {"ok", "remote_error", "failed"} :
          /\ remote' = [remote EXCEPT ![id] =
                            IF outcome = "ok" THEN RemoteNext(operation, @) ELSE @]
          /\ transition_envoy' = [transition_envoy EXCEPT ![id] =
                            after_submit_transition(IF outcome = "failed" THEN "failed" ELSE "ok")]
          /\ transition_out' = [transition_out EXCEPT ![id] =
                            IF outcome = "failed" THEN NoResponse
                            ELSE compose_ecc_response(
                                    IF outcome = "ok" /\ RemoteApplies(operation, remote[id])
                                    THEN 0 ELSE 1, id)]
    /\ UNCHANGED <<ecc_senders, results, status_envoy, status_out, monitor_vars, sm_vars,
                   embassy_vars, control_vars, inbox, query, run_duration, graph>>

\* self.outgoing.send(response).await
wait_for_transition_send(id) ==
    /\ transition_envoy[id] = "send"
    /\ Len(results) < ResultCapacity
    /\ results' = Append(results, transition_out[id])
    /\ transition_envoy' = [transition_envoy EXCEPT ![id] = "recv"]
    /\ transition_out' = [transition_out EXCEPT ![id] = NoResponse]
    /\ UNCHANGED <<ecc_senders, status_envoy, status_out, monitor_vars, remote,
                   sm_vars, embassy_vars, control_vars, inbox, query, run_duration, graph>>

(***************************************************************************)
(* ECCEnvoy::wait_check_status, the task of the status envoy of id         *)
(***************************************************************************)
\* The message a tick sends: the parsed response, or on a failed request
\* the record ECCStatusResponse { error_code: 0, state: 0, transition: 0 }
check_status_message(id, failed, state) ==
    IF failed THEN compose_ecc_status(0, id) ELSE compose_ecc_status(state, id)

\* A failed request ends the task
after_check_status_or_return(failed) == IF failed THEN "done" ELSE "send"

\* The envoy after the request of a tick: it sends in both cases
after_check_status(failed) == "send"

\* The cancel branch of the select!
wait_check_status_cancel(id) ==
    /\ status_envoy[id] = "sleep"
    /\ cancelled
    /\ status_envoy' = [status_envoy EXCEPT ![id] = "done"]
    /\ UNCHANGED <<status_out, transition_envoy, transition_out, monitor_vars, remote,
                   sm_vars, embassy_vars, channel_vars, control_vars, inbox, query, run_duration, graph>>

\* The sleep branch up to the send: the status request and its outcome
wait_check_status_tick(id) ==
    /\ status_envoy[id] = "sleep"
    /\ \E failed \in BOOLEAN :
          /\ status_envoy' = [status_envoy EXCEPT ![id] = after_check_status(failed)]
          /\ status_out' = [status_out EXCEPT ![id] =
                [failed |-> failed, message |-> check_status_message(id, failed, remote[id])]]
    /\ UNCHANGED <<transition_envoy, transition_out, monitor_vars, remote, sm_vars,
                   embassy_vars, channel_vars, control_vars, inbox, query, run_duration, graph>>

\* self.outgoing.send(message).await, which waits while the channel is full
wait_check_status_send(id) ==
    /\ status_envoy[id] = "send"
    /\ Len(results) < ResultCapacity
    /\ results' = Append(results, status_out[id].message)
    /\ status_envoy' = [status_envoy EXCEPT ![id] = "sleep"]
    /\ status_out' = [status_out EXCEPT ![id] = NoStatus]
    /\ UNCHANGED <<ecc_senders, transition_envoy, transition_out,
                   monitor_vars, remote, sm_vars, embassy_vars, control_vars, inbox, query, run_duration, graph>>

\* The sleep branch of a tick whose send does not have to wait, in one step
wait_check_status(id) ==
    /\ status_envoy[id] = "sleep"
    /\ Len(results) < ResultCapacity
    /\ \E failed \in BOOLEAN :
          /\ after_check_status(failed) = "send"
          /\ results' = Append(results, check_status_message(id, failed, remote[id]))
    /\ UNCHANGED <<ecc_senders, ecc_envoy_vars, monitor_vars, remote, sm_vars,
                   embassy_vars, control_vars, inbox, query, run_duration, graph>>

(***************************************************************************)
(* SurveyorEnvoy (surveyor_envoy.rs), the monitor of a front-end.  The     *)
(* answer to its status request is one of                                  *)
(*   "good"      a listing whose first line is a non-zero state,           *)
(*   "zero"      a body whose first line is 0,                             *)
(*   "empty"     a body without lines,                                     *)
(*   "malformed" a body whose first line is not an integer,                *)
(*   "short"     a non-zero state followed by fewer than three lines,      *)
(*   "failed"    no answer (the request returned an error).                *)
(***************************************************************************)
SurveyorAnswers == {"good", "zero", "empty", "malformed", "short", "failed"}

\* parse_response after submit_check_status got `answer`: Ok(Some(message)),
\* Ok(None), Err, or the panic of an index past the end of `lines`
surveyor_submit_check_status(answer, id) ==
    CASE answer = "good" -> [result |-> "Some", message |-> compose_surveyor_response("record", id)]
      [] answer = "zero" -> [result |-> "Some", message |-> compose_surveyor_response("default", id)]
      [] answer = "empty" -> [result |-> "None", message |-> NoMessage]
      [] answer = "short" -> [result |-> "Panic", message |-> NoMessage]
      [] OTHER -> [result |-> "Err", message |-> NoMessage]

\* The sleep branch of SurveyorEnvoy::wait_check_status up to the send: the
\* message to send, or none
surveyor_wait_check_status(answer, id) ==
    LET response == surveyor_submit_check_status(answer, id) IN
    CASE response.result = "Some" -> [next |-> "send", message |-> response.message]
      [] response.result = "None" -> [next |-> "sleep", message |-> NoMessage]
      [] response.result = "Err" ->
            [next |-> "send", message |-> compose_surveyor_response("default", id)]
      [] OTHER -> [next |-> "panicked", message |-> NoMessage]

surveyor_cancel(id) ==
    /\ surveyor_envoy[id] = "sleep"
    /\ cancelled
    /\ surveyor_envoy' = [surveyor_envoy EXCEPT ![id] = "done"]
    /\ UNCHANGED <<surveyor_out, sentry_envoy, sentry_out, ecc_envoy_vars, remote,
                   sm_vars, embassy_vars, channel_vars, control_vars, inbox, query, run_duration, graph>>

surveyor_tick(id) ==
    /\ surveyor_envoy[id] = "sleep"
    /\ \E answer \in SurveyorAnswers :
          LET step == surveyor_wait_check_status(answer, id) IN
          /\ surveyor_envoy' = [surveyor_envoy EXCEPT ![id] = step.next]
          /\ surveyor_out' = [surveyor_out EXCEPT ![id] =
                                [response |-> answer, message |-> step.message]]
    /\ UNCHANGED <<sentry_envoy, sentry_out, ecc_envoy_vars, remote,
                   sm_vars, embassy_vars, channel_vars, control_vars, inbox, query, run_duration, graph>>

surveyor_send(id) ==
    /\ surveyor_envoy[id] = "send"
    /\ Len(results) < ResultCapacity
    /\ results' = Append(results, surveyor_out[id].message)
    /\ surveyor_envoy' = [surveyor_envoy EXCEPT ![id] = "sleep"]
    /\ UNCHANGED <<surveyor_out, sentry_envoy, sentry_out, ecc_senders, ecc_envoy_vars,
                   remote, sm_vars, embassy_vars, control_vars, inbox, query, run_duration, graph>>

(***************************************************************************)
(* run_sentry_envoy (sentry_envoy.rs), the monitor of a module.  The       *)
(* answer to its status request is "good" (a parseable report),            *)
(* "server_error" (HTTP 500), "malformed" (a body that is not the JSON of  *)
(* a SentryResponse, an empty body included) or "failed" (no answer).      *)
(***************************************************************************)
SentryAnswers == {"good", "server_error", "malformed", "failed"}

\* submit_check_status: Ok(message) or Err
sentry_submit_check_status(answer, id) ==
    CASE answer = "good" -> [result |-> "Ok", message |-> compose_sentry_status("record", id)]
      [] answer = "server_error" ->
            [result |-> "Ok", message |-> compose_sentry_status("default", id)]
      [] OTHER -> [result |-> "Err", message |-> NoMessage]

\* The sleep branch of run_sentry_envoy up to the send: the ? operator
\* returns the error of submit_check_status from the task
run_sentry_envoy(answer, id) ==
    LET response == sentry_submit_check_status(answer, id) IN
    IF response.result = "Ok"
    THEN [next |-> "send", message |-> response.message]
    ELSE [next |-> "done", message |-> NoMessage]

\* startup_sentry_envoys, with the result sender and the cancel broadcaster
\* of a running embassy: one envoy per id in 0..NUMBER_OF_MODULES
startup_sentry_envoys ==
    /\ Idle
    /\ is_running /\ handles = "Some" /\ ~cancelled
    /\ \A id \in Ids : sentry_envoy[id] = "none"
    /\ sentry_envoy' = [id \in Ids |-> "sleep"]
    /\ UNCHANGED <<sentry_out, surveyor_envoy, surveyor_out, ecc_envoy_vars, remote,
                   sm_vars, embassy_vars, channel_vars, control_vars, inbox, query, run_duration, graph>>

sentry_cancel(id) ==
    /\ sentry_envoy[id] = "sleep"
    /\ cancelled
    /\ sentry_envoy' = [sentry_envoy EXCEPT ![id] = "done"]
    /\ UNCHANGED <<sentry_out, surveyor_envoy, surveyor_out, ecc_envoy_vars, remote,
                   sm_vars, embassy_vars, channel_vars, control_vars, inbox, query, run_duration, graph>>

sentry_tick(id) ==
    /\ sentry_envoy[id] = "sleep"
    /\ \E answer \in SentryAnswers :
          LET step == run_sentry_envoy(answer, id) IN
          /\ sentry_envoy' = [sentry_envoy EXCEPT ![id] = step.next]
          /\ sentry_out' = [sentry_out EXCEPT ![id] =
                                [response |-> answer, message |-> step.message]]
    /\ UNCHANGED <<surveyor_envoy, surveyor_out, ecc_envoy_vars, remote,
                   sm_vars, embassy_vars, channel_vars, control_vars, inbox, query, run_duration, graph>>

sentry_send(id) ==
    /\ sentry_envoy[id] = "send"
    /\ Len(results) < ResultCapacity
    /\ results' = Append(results, sentry_out[id].message)
    /\ sentry_envoy' = [sentry_envoy EXCEPT ![id] = "sleep"]
    /\ UNCHANGED <<sentry_out, surveyor_envoy, surveyor_out, ecc_senders, ecc_envoy_vars,
                   remote, sm_vars, embassy_vars, control_vars, inbox, query, run_duration, graph>>

(***************************************************************************)
(* The steps of the control thread                                         *)
(***************************************************************************)
\* Embassy::submit_message: "sent", "closed" (the envoy dropped its receiver:
\* blocking_send returns an error) or "ignored" (no sender for this message)
\* Without the test of the kind
submit_outcome_any_kind(message) ==
    IF message.id \in DOMAIN ecc_senders
    THEN IF transition_envoy[message.id] = "done" THEN "closed" ELSE "sent"
    ELSE "ignored"

submit_outcome(message) ==
    IF message.kind = "ECCOperation" /\ message.id \in DOMAIN ecc_senders
    THEN IF transition_envoy[message.id] = "done" THEN "closed" ELSE "sent"
    ELSE "ignored"

\* blocking_send waits while the channel is full
submit_blocked(message) ==
    /\ submit_outcome(message) = "sent"
    /\ Len(ecc_senders[message.id]) >= InboundCapacity

submit_message(message) ==
    IF submit_outcome(message) = "sent"
    THEN ecc_senders' = [ecc_senders EXCEPT ![message.id] = Append(@, message)]
    ELSE UNCHANGED ecc_senders

\* What a submit_message adds to the commands delivered
delivered_by(message) ==
    IF submit_outcome(message) = "sent" THEN <<(<<message.id, message.body>>)>> ELSE <<>>

\* The operation transition_ecc looks up for id
transition_operation(status, id, is_forward) ==
    IF is_forward
    THEN get_forward_operation(get_ecc_status(status, id))
    ELSE get_backward_operation(get_ecc_status(status, id))

\* The StatusManager after the loop body of transition_ecc for id:
\* set_ecc_busy(id) follows the match, whatever the operation
transition_ecc_mark(sm, id, operation) == set_ecc_busy(sm, id)

\* The loop entered without the test of the connection
transition_ecc_step_untested ==
    /\ plan # <<>> /\ ~panicked
    /\ Head(plan).k = "tx"
    /\ IF FALSE
       THEN /\ Continue(Tail(plan), <<>>)
            /\ UNCHANGED <<sm_vars, ecc_senders>>
       ELSE LET id == Head(Head(plan).ids)
                rest == Tail(Head(plan).ids)
                operation == transition_operation(ecc_status, id, Head(plan).fwd)
                message == compose_ecc_op(operation, id)
                sm == transition_ecc_mark(<<ecc_status, ecc_holds>>, id, operation)
            IN  /\ operation # "Invalid" => ~submit_blocked(message)
                /\ IF operation # "Invalid"
                   THEN submit_message(message)
                   ELSE UNCHANGED ecc_senders
                /\ ecc_status' = sm[1]
                /\ ecc_holds' = sm[2]
                /\ Continue(IF rest = <<>> THEN Tail(plan)
                            ELSE <<Tx(rest, Head(plan).fwd)>> \o Tail(plan),
                            IF operation # "Invalid" THEN delivered_by(message) ELSE <<>>)
    /\ UNCHANGED <<results, envoy_vars, embassy_vars, panicked, inbox, query, run_duration, graph>>

\* One iteration of the loop of transition_ecc (or its return when the
\* embassy is not connected)
transition_ecc_step ==
    /\ plan # <<>> /\ ~panicked
    /\ Head(plan).k = "tx"
    /\ IF ~is_running
       THEN /\ Continue(Tail(plan), <<>>)
            /\ UNCHANGED <<sm_vars, ecc_senders>>
       ELSE LET id == Head(Head(plan).ids)
                rest == Tail(Head(plan).ids)
                operation == transition_operation(ecc_status, id, Head(plan).fwd)
                message == compose_ecc_op(operation, id)
                sm == transition_ecc_mark(<<ecc_status, ecc_holds>>, id, operation)
            IN  /\ operation # "Invalid" => ~submit_blocked(message)
                /\ IF operation # "Invalid"
                   THEN submit_message(message)
                   ELSE UNCHANGED ecc_senders
                /\ ecc_status' = sm[1]
                /\ ecc_holds' = sm[2]
                /\ Continue(IF rest = <<>> THEN Tail(plan)
                            ELSE <<Tx(rest, Head(plan).fwd)>> \o Tail(plan),
                            IF operation # "Invalid" THEN delivered_by(message) ELSE <<>>)
    /\ UNCHANGED <<results, envoy_vars, embassy_vars, panicked, inbox, query, run_duration, graph>>

\* A direct submit_message of a transition function
submit_step ==
    /\ plan # <<>> /\ ~panicked
    /\ Head(plan).k = "submit"
    /\ LET message == compose_ecc_op(Head(plan).op, Head(plan).id) IN
          /\ ~submit_blocked(message)
          /\ submit_message(message)
          /\ IF submit_outcome(message) = "closed" /\ Head(plan).q
             THEN Return("FailedSend")
             ELSE Continue(Tail(plan), delivered_by(message))
    /\ UNCHANGED <<results, sm_vars, envoy_vars, embassy_vars, panicked, inbox, query, run_duration, graph>>

\* One iteration of a blocking loop: poll_embassy, then the break test
wait_step ==
    /\ plan # <<>> /\ ~panicked
    /\ Head(plan).k = "wait"
    /\ LET sm == poll_embassy(<<ecc_status, ecc_holds>>) IN
          /\ ecc_status' = sm[1]
          /\ ecc_holds' = sm[2]
          /\ results' = results_after_poll
          /\ panicked' = poll_embassy_panics
          /\ IF Holds(Head(plan).pred, sm[1]) /\ ~poll_embassy_panics
             THEN Continue(Tail(plan), <<>>)
             ELSE UNCHANGED <<plan, fn, entry_op, ret, sent>>
    /\ UNCHANGED <<ecc_senders, envoy_vars, embassy_vars, inbox, query, run_duration, graph>>

\* EnvoyApp::update polls the embassy at the start of every frame; the
\* result of a call made in the frame before is gone
update_poll ==
    /\ Idle
    /\ LET sm == poll_embassy(<<ecc_status, ecc_holds>>) IN
          /\ ecc_status' = sm[1]
          /\ ecc_holds' = sm[2]
          /\ results' = results_after_poll
          /\ panicked' = poll_embassy_panics
    /\ ret' = "none"
    /\ UNCHANGED <<plan, fn, entry_op, sent>>
    /\ UNCHANGED <<ecc_senders, envoy_vars, embassy_vars, inbox, query, run_duration, graph>>

(***************************************************************************)
(* Embassy::shutdown                                                       *)
(***************************************************************************)
\* tx.send(cancel_message).expect(..): the broadcast send returns an error,
\* and expect panics, when no envoy holds a receiver any more
shutdown_panics == cancel_some /\ EnvoysAlive = {}

\* Up to the first block_on(handle)
shutdown ==
    /\ Idle
    /\ IF shutdown_panics
       THEN /\ panicked' = TRUE
            /\ UNCHANGED <<cancelled, handles, plan, fn, ret, sent>>
       ELSE /\ cancelled' = (cancelled \/ cancel_some)
            /\ handles' = "None"
            /\ IF handles = "Some"
               THEN Call("shutdown", <<Join>>)
               ELSE Call("shutdown", <<>>)
    /\ UNCHANGED <<is_running, cancel_some, envoy_reciever_some, entry_op>>
    /\ UNCHANGED <<sm_vars, envoy_vars, channel_vars, inbox, query, run_duration, graph>>

\* for handle in handles { self.runtime.block_on(handle)? }: the handles of
\* the ECC envoys, then those of the surveyor envoys by id; the handle of a
\* task that panicked joins with an error
join_step ==
    /\ plan # <<>> /\ ~panicked
    /\ Head(plan).k = "join"
    /\ \A id \in Ids : transition_envoy[id] = "done" /\ status_envoy[id] = "done"
    /\ \E id \in CoBoIds \cup {MUTANT_ID} :
          /\ \A i \in CoBoIds : i < id => surveyor_envoy[i] = "done"
          /\ id \in CoBoIds => surveyor_envoy[id] = "panicked"
    /\ IF \A id \in CoBoIds : surveyor_envoy[id] = "done"
       THEN Continue(Tail(plan), <<>>)
       ELSE Return("FailedJoin")
    /\ UNCHANGED <<sm_vars, envoy_vars, embassy_vars, channel_vars, panicked, inbox, query, run_duration, graph>>

(***************************************************************************)
(* The calls of the transition functions                                   *)
(***************************************************************************)
\* The Progress button of the whole system, enabled while the system
\* status can go forward
call_forward_transition_all ==
    LET operation == get_forward_operation(get_system_ecc_status(ecc_status)) IN
    /\ Idle
    /\ can_go_forward(get_system_ecc_status(ecc_status))
    /\ IF operation \in {"Describe", "Prepare", "Configure"}
       THEN /\ Call("forward_transition_all", forward_transition_all(operation))
            /\ entry_op' = IF forward_transition_all(operation) = <<>> THEN "none" ELSE operation
       ELSE /\ ret' = "InvalidTransition"
            /\ UNCHANGED <<plan, fn, entry_op, sent, panicked>>
    /\ UNCHANGED <<sm_vars, envoy_vars, embassy_vars, channel_vars, inbox, query, run_duration, graph>>

call_backward_transition_all ==
    /\ Call("backward_transition_all", backward_transition_all)
    /\ UNCHANGED <<entry_op, sm_vars, envoy_vars, embassy_vars, channel_vars, inbox, query, run_duration, graph>>

\* The ECC panel: the Progress or Regress button of one module
call_transition_ecc ==
    /\ \E id \in Ids, is_forward \in BOOLEAN :
          Call("transition_ecc", transition_ecc(<<id>>, is_forward))
    /\ UNCHANGED <<entry_op, sm_vars, envoy_vars, embassy_vars, channel_vars, inbox, query, run_duration, graph>>

\* stop_mutant_blocking and start_cobos_blocking, called as the Stop and
\* the Start button call their inlined copies
call_stop_mutant_blocking ==
    /\ is_system_running(ecc_status)
    /\ Call("stop_mutant_blocking", stop_mutant_blocking)
    /\ UNCHANGED <<entry_op, sm_vars, envoy_vars, embassy_vars, channel_vars, inbox, query, run_duration, graph>>

call_start_cobos_blocking ==
    /\ is_system_ready(ecc_status)
    /\ Call("start_cobos_blocking", start_cobos_blocking)
    /\ UNCHANGED <<entry_op, sm_vars, envoy_vars, embassy_vars, channel_vars, inbox, query, run_duration, graph>>

\* The Start button, enabled while is_system_ready()
call_start_run ==
    /\ is_system_ready(ecc_status)
    /\ Call("start_run", start_run)
    /\ UNCHANGED <<entry_op, sm_vars, envoy_vars, embassy_vars, channel_vars, inbox, query, run_duration, graph>>

\* The Stop button, enabled while is_system_running()
call_stop_run ==
    /\ is_system_running(ecc_status)
    /\ Call("stop_run", stop_run)
    /\ UNCHANGED <<entry_op, sm_vars, envoy_vars, embassy_vars, channel_vars, inbox, query, run_duration, graph>>

(***************************************************************************)
(* The ECC transitions: the transition and status envoys, the frame loop   *)
(* and forward_transition_all.  The monitor envoys stay asleep.            *)
(***************************************************************************)
EnvoyNext ==
    \E id \in Ids :
        \/ wait_for_transition_recv(id)
        \/ wait_for_transition_send(id)
        \/ wait_check_status(id)

Next ==
    \/ startup
    \/ EnvoyNext
    \/ transition_ecc_step
    \/ wait_step
    \/ update_poll
    \/ call_forward_transition_all

Spec == Init /\ [][Next]_vars

(***************************************************************************)
(* The start of a run: the envoys, the frame loop, the Start button and    *)
(* start_cobos_blocking, with the remote ECC servers configured (Ready)    *)
(* when the program starts.                                                *)
(***************************************************************************)
InitStart == Constructed(4) /\ inbox = NoInbox /\ run_duration = 0 /\ graph = NoGraph

NextStart ==
    \/ startup
    \/ EnvoyNext
    \/ transition_ecc_step
    \/ submit_step
    \/ wait_step
    \/ update_poll
    \/ call_start_run
    \/ call_start_cobos_blocking

SpecStart == InitStart /\ [][NextStart]_vars

(***************************************************************************)
(* The stop of a run: the envoys, the frame loop, the Stop button and      *)
(* stop_mutant_blocking, with the remote ECC servers Running when the      *)
(* program starts.                                                         *)
(***************************************************************************)
InitStop == Constructed(5) /\ inbox = NoInbox /\ run_duration = 0 /\ graph = NoGraph

NextStop ==
    \/ startup
    \/ EnvoyNext
    \/ submit_step
    \/ wait_step
    \/ update_poll
    \/ call_stop_run
    \/ call_stop_mutant_blocking

SpecStop == InitStop /\ [][NextStop]_vars

(***************************************************************************)
(* The StatusManager on its own: set_ecc_busy and handle_messages called   *)
(* on a StatusManager as created, with the messages handled drawn from     *)
(* the status reports and operation responses of all the modules.          *)
(***************************************************************************)
InboxMessages ==
    {compose_ecc_status(state, id) : state \in {1, 4}, id \in Ids}
        \cup {compose_ecc_response(error_code, id) : error_code \in {0, 1}, id \in Ids}

Batches == UNION {[1..n -> InboxMessages] : n \in 0..MaxBatch}

InitStatus ==
    /\ Constructed(1)
    /\ run_duration = 0 /\ graph = NoGraph
    /\ inbox \in {[pending |-> batch, handled |-> <<>>] : batch \in Batches}

\* status_manager.set_ecc_busy(id), also for an id that is no module
call_set_ecc_busy ==
    /\ \E id \in 0..NUMBER_OF_MODULES :
          LET sm == set_ecc_busy(<<ecc_status, ecc_holds>>, id) IN
          ecc_status' = sm[1] /\ ecc_holds' = sm[2]
    /\ inbox' = [inbox EXCEPT !.handled = <<>>]
    /\ UNCHANGED <<envoy_vars, embassy_vars, channel_vars, control_vars, query, run_duration, graph>>

\* status_manager.handle_messages(&messages) on the next messages
call_handle_messages ==
    /\ \E n \in 1..Len(inbox.pending) :
          LET messages == SubSeq(inbox.pending, 1, n)
              sm == handle_messages(<<ecc_status, ecc_holds>>, messages)
          IN  /\ ecc_status' = sm[1]
              /\ ecc_holds' = sm[2]
              /\ inbox' = [pending |-> SubSeq(inbox.pending, n + 1, Len(inbox.pending)),
                           handled |-> messages]
    /\ UNCHANGED <<envoy_vars, embassy_vars, channel_vars, control_vars, query, run_duration, graph>>

NextStatus ==
    \/ call_set_ecc_busy
    \/ call_handle_messages

SpecStatus == InitStatus /\ [][NextStatus]_vars

(***************************************************************************)
(* Embassy::poll_messages called on a running embassy whose result channel *)
(* holds the messages the envoys have sent since the last poll (the        *)
(* channel has room for 33), beside the status envoys and the cancel.      *)
(***************************************************************************)
InitDrain ==
    /\ ecc_status = [id \in Ids |-> 0]
    /\ ecc_holds = [id \in Ids |-> FALSE]
    /\ is_running = TRUE
    /\ cancel_some = TRUE
    /\ envoy_reciever_some = TRUE
    /\ cancelled = FALSE
    /\ handles = "Some"
    /\ ecc_senders = [id \in Ids |-> <<>>]
    /\ results \in Batches
    /\ transition_envoy = [id \in Ids |-> "done"]
    /\ transition_out = [id \in Ids |-> NoResponse]
    /\ status_envoy = [id \in Ids |-> IF id = MUTANT_ID THEN "sleep" ELSE "done"]
    /\ status_out = [id \in Ids |-> NoStatus]
    /\ surveyor_envoy = [id \in CoBoIds |-> "done"]
    /\ surveyor_out = [id \in CoBoIds |-> NoReport]
    /\ sentry_envoy = [id \in Ids |-> "none"]
    /\ sentry_out = [id \in Ids |-> NoReport]
    /\ remote = [id \in Ids |-> 1]
    /\ plan = <<>>
    /\ fn = "idle"
    /\ entry_op = "none"
    /\ ret = "none"
    /\ sent = <<>>
    /\ panicked = FALSE
    /\ query = NoQuery
    /\ inbox = NoInbox
    /\ run_duration = 0 /\ graph = NoGraph

\* embassy.poll_messages(): the result returned and the channel drained
call_poll_messages ==
    /\ Idle
    /\ query' = Asked("poll_messages", 0, poll_messages)
    /\ results' = IF envoy_reciever_some THEN <<>> ELSE results
    /\ UNCHANGED <<ecc_senders, sm_vars, envoy_vars, embassy_vars, control_vars, inbox, run_duration, graph>>

NextDrain ==
    \/ call_poll_messages
    \/ wait_check_status_tick(MUTANT_ID)
    \/ wait_check_status_send(MUTANT_ID)
    \/ wait_check_status_cancel(MUTANT_ID)
    \/ shutdown
    \/ join_step

SpecDrain == InitDrain /\ [][NextDrain]_vars

(***************************************************************************)
(* Embassy::submit_message called with any message: a command or a status  *)
(* report, for a module or for an id that is no module, before and after   *)
(* startup.  The transition envoy of the master executes its commands and  *)
(* the frame loop polls; the other envoys are not scheduled.               *)
(***************************************************************************)
SubmitMessages(operations) ==
    {compose_ecc_op(operation, id) : operation \in operations, id \in 0..NUMBER_OF_MODULES}
        \cup {compose_ecc_status(1, id) : id \in 0..NUMBER_OF_MODULES}

\* embassy.submit_message(message): Ok(()) or the error of blocking_send
call_submit_message(operations) ==
    /\ Idle
    /\ \E message \in SubmitMessages(operations) :
          /\ ~submit_blocked(message)
          /\ submit_message(message)
          /\ query' = Asked("submit_message", message.id,
                            [message |-> message,
                             result |-> IF submit_outcome(message) = "closed"
                                        THEN "FailedSend" ELSE "Ok"])
    /\ UNCHANGED <<results, sm_vars, envoy_vars, embassy_vars, control_vars, inbox, run_duration, graph>>

NextSubmit ==
    \/ startup
    \/ call_submit_message({"Describe"})
    \/ wait_for_transition_recv(MUTANT_ID)
    \/ wait_for_transition_send(MUTANT_ID)
    \/ update_poll

SpecSubmit == Init /\ [][NextSubmit]_vars

\* The same with two operations and the request of the envoy as a step
NextQueue ==
    \/ startup
    \/ call_submit_message({"Describe", "Prepare"})
    \/ wait_for_transition_take(MUTANT_ID)
    \/ wait_for_transition_call(MUTANT_ID)
    \/ wait_for_transition_send(MUTANT_ID)
    \/ update_poll

SpecQueue == Init /\ [][NextQueue]_vars

\* The two envoys of the master, the transition envoy and the status
\* envoy, beside the commands and the frame loop
NextOrder ==
    \/ startup
    \/ call_submit_message({"Describe"})
    \/ wait_for_transition_recv(MUTANT_ID)
    \/ wait_for_transition_send(MUTANT_ID)
    \/ wait_check_status_tick(MUTANT_ID)
    \/ wait_check_status_send(MUTANT_ID)
    \/ update_poll

SpecOrder == Init /\ [][NextOrder]_vars

(***************************************************************************)
(* The queries of the StatusManager and of ECCStatus, as the ECC panel     *)
(* calls them to enable its buttons, on any records: the state codes are   *)
(* those of From<i32> for ECCStatus and one code it does not know.         *)
(***************************************************************************)
StateCodes == 0..MaxStateCode

\* The records after any status messages were handled
InitQuery ==
    /\ \E status \in [Ids -> StateCodes] : ConstructedWith(status, 1)
    /\ inbox = NoInbox
    /\ run_duration = 0 /\ graph = NoGraph

call_get_system_ecc_status ==
    /\ query' = Asked("get_system_ecc_status", 0, get_system_ecc_status(ecc_status))
    /\ UNCHANGED <<sm_vars, envoy_vars, embassy_vars, channel_vars, control_vars, inbox, run_duration, graph>>

call_can_ecc_go_forward ==
    /\ \E id \in Ids :
          query' = Asked("can_ecc_go_forward", id, can_ecc_go_forward(ecc_status, id))
    /\ UNCHANGED <<sm_vars, envoy_vars, embassy_vars, channel_vars, control_vars, inbox, run_duration, graph>>

\* status.can_go_forward() and status.can_go_backward() of a status, beside
\* the operations the button would submit
call_can_go ==
    /\ \E status \in ECCStatusValues :
          query' = Asked("can_go", 0,
                         [status |-> status,
                          forward |-> get_forward_operation(status),
                          backward |-> get_backward_operation(status),
                          can_go_forward |-> can_go_forward(status),
                          can_go_backward |-> can_go_backward(status)])
    /\ UNCHANGED <<sm_vars, envoy_vars, embassy_vars, channel_vars, control_vars, inbox, run_duration, graph>>

NextQuery ==
    \/ call_get_system_ecc_status
    \/ call_can_ecc_go_forward
    \/ call_can_go

SpecQuery == InitQuery /\ [][NextQuery]_vars

(***************************************************************************)
(* The status polling: the status envoys and the frame loop, the remote    *)
(* ECC servers being in any one state.                                     *)
(***************************************************************************)
InitPolling == inbox = NoInbox /\ \E state \in RemoteStates : Constructed(state) /\ run_duration = 0 /\ graph = NoGraph

NextPolling ==
    \/ startup
    \/ update_poll
    \/ \E id \in Ids : wait_check_status_tick(id) \/ wait_check_status_send(id)

SpecPolling == InitPolling /\ [][NextPolling]_vars

(***************************************************************************)
(* Embassy::startup called at any time, also on a running embassy, beside  *)
(* the status envoys and the frame loop.                                   *)
(***************************************************************************)
NextConnect ==
    \/ call_startup
    \/ update_poll
    \/ \E id \in Ids : wait_check_status_tick(id) \/ wait_check_status_send(id)

SpecConnect == InitPolling /\ [][NextConnect]_vars

(***************************************************************************)
(* The embassy: startup and shutdown, the envoys it spawns with the        *)
(* status envoys polling, and the frame loop.                              *)
(***************************************************************************)
NextEmbassy ==
    \/ startup
    \/ shutdown
    \/ join_step
    \/ update_poll
    \/ \E id \in Ids :
          \/ wait_for_transition_cancel(id)
          \/ wait_check_status_cancel(id)
          \/ wait_check_status_tick(id)
          \/ wait_check_status_send(id)
    \/ \E id \in CoBoIds : surveyor_cancel(id)

SpecEmbassy == Init /\ [][NextEmbassy]_vars

(***************************************************************************)
(* The monitors: the surveyor envoys and the sentry envoys polling, and    *)
(* the frame loop.                                                         *)
(***************************************************************************)
NextMonitor ==
    \/ startup
    \/ startup_sentry_envoys
    \/ update_poll
    \/ \E id \in CoBoIds : surveyor_tick(id) \/ surveyor_send(id)
    \/ \E id \in Ids : sentry_tick(id) \/ sentry_send(id)

SpecMonitor == Init /\ [][NextMonitor]_vars

(***************************************************************************)
(* Properties of forward_transition_all                                    *)
(***************************************************************************)
\* The control thread delivers a command to the transition envoy of id
Delivers(id) == Len(ecc_senders'[id]) > Len(ecc_senders[id])

\* C1: in the Prepare branch of forward_transition_all the command of the
\* master is the first one delivered, and a command is delivered to a
\* front-end only while the StatusManager records the master as Prepared, a
\* record written after the delivery to the master marked it Busy.
C1_MasterPreparedBeforeFrontEnds ==
    [][entry_op = "Prepare" =>
          /\ Delivers(MUTANT_ID) => sent = <<>>
          /\ \A id \in CoBoIds :
                Delivers(id) =>
                    /\ sent # <<>>
                    /\ sent[1] = <<MUTANT_ID, "Prepare">>
                    /\ get_ecc_status(ecc_status, MUTANT_ID) = "Prepared"]_vars

\* C1 witness: in the Prepare branch a front-end has been sent its command
C1_Witness ==
    /\ entry_op = "Prepare"
    /\ \E i \in 1..Len(sent) : sent[i][1] \in CoBoIds

\* C2: in the Configure branch of forward_transition_all the front-ends are
\* commanded before the master, and the command of the master is delivered
\* only after every front-end was sent Configure and while the StatusManager
\* records every front-end as Ready.
C2_FrontEndsReadyBeforeMaster ==
    [][entry_op = "Configure" =>
          /\ \A id \in CoBoIds :
                Delivers(id) => \A i \in 1..Len(sent) : sent[i][1] # MUTANT_ID
          /\ Delivers(MUTANT_ID) =>
                \A id \in CoBoIds :
                    /\ \E i \in 1..Len(sent) : sent[i] = <<id, "Configure">>
                    /\ get_ecc_status(ecc_status, id) = "Ready"]_vars

\* C2 witness: the master has been sent Configure with every front-end
\* recorded Ready
C2_Witness ==
    /\ is_running
    /\ ecc_senders[MUTANT_ID] # <<>>
    /\ Head(ecc_senders[MUTANT_ID]).body = "Configure"
    /\ \A id \in CoBoIds : get_ecc_status(ecc_status, id) = "Ready"

(***************************************************************************)
(* Properties of the run control                                           *)
(***************************************************************************)
\* The blocking loop on the StatusManager predicate `pred` breaks
Breaks(pred) ==
    /\ plan # <<>>
    /\ Head(plan).k = "wait"
    /\ Head(plan).pred = pred
    /\ plan' # plan

\* The control thread makes the direct submit_message of `op` to id
Submits(id, op) ==
    /\ plan # <<>>
    /\ Head(plan).k = "submit"
    /\ Head(plan).id = id
    /\ Head(plan).op = op
    /\ plan' # plan

\* C3: the loop of stop_mutant_blocking breaks only once the StatusManager
\* records the master as not Running, and in the stop-run sequence Stop is
\* submitted to a front-end only while the master is recorded as not Running.
C3_MasterStoppedBeforeFrontEnds ==
    [][/\ Breaks("is_mutant_stopped") =>
              get_ecc_status(ecc_status', MUTANT_ID) # "Running"
       /\ \A id \in CoBoIds :
              (fn = "stop_run" /\ Submits(id, "Stop")) =>
                  get_ecc_status(ecc_status, MUTANT_ID) # "Running"]_vars

\* C4: the loop of start_cobos_blocking breaks only when Start was delivered
\* to every front-end and every front-end is recorded Running, and in the
\* start-run sequence Start is submitted to the master only then.
C4_FrontEndsRunningBeforeMaster ==
    [][/\ Breaks("is_all_but_mutant_running") =>
              \A id \in CoBoIds :
                  /\ \E i \in 1..Len(sent) : sent[i] = <<id, "Start">>
                  /\ get_ecc_status(ecc_status', id) = "Running"
       /\ (fn = "start_run" /\ Submits(MUTANT_ID, "Start")) =>
              \A id \in CoBoIds :
                  /\ \E i \in 1..Len(sent) : sent[i] = <<id, "Start">>
                  /\ get_ecc_status(ecc_status, id) = "Running"]_vars

\* C4 witness: the master has been sent Start with every front-end recorded
\* Running
C4_Witness ==
    /\ is_running
    /\ ecc_senders[MUTANT_ID] # <<>>
    /\ Head(ecc_senders[MUTANT_ID]).body = "Start"
    /\ \A id \in CoBoIds : get_ecc_status(ecc_status, id) = "Running"

(***************************************************************************)
(* Properties of transition_ecc and of the transition envoy                *)
(***************************************************************************)
\* C6: an iteration of transition_ecc marks its module Busy and raises its
\* hold flag when it submits a command, and leaves the record and the hold
\* flag of the module unchanged, submitting nothing, when the operation
\* looked up is Invalid.
C6_BusyExactlyWhenSubmitted ==
    [][(plan # <<>> /\ Head(plan).k = "tx" /\ is_running /\ plan' # plan) =>
          LET id == Head(Head(plan).ids)
              operation == transition_operation(ecc_status, id, Head(plan).fwd)
          IN  IF operation = "Invalid"
              THEN /\ ~Delivers(id)
                   /\ ecc_status'[id] = ecc_status[id]
                   /\ ecc_holds'[id] = ecc_holds[id]
              ELSE /\ ecc_status'[id] = ECCStatus_into_i32("Busy")
                   /\ ecc_holds'[id]]_vars

\* C7: a transition envoy that has not been cancelled stays alive, whatever
\* the outcome of the command it executes.
C7_CommandFailureKeepsEnvoy ==
    [][\A id \in Ids :
          (transition_envoy[id] = "recv" /\ ~cancelled) =>
              transition_envoy'[id] \in {"recv", "send"}]_vars

(***************************************************************************)
(* Properties of the StatusManager                                         *)
(***************************************************************************)
\* The positions in `messages` of the operation responses of module id
ResponsesOf(messages, id) ==
    {i \in 1..Len(messages) :
        messages[i].kind = "ECCOpResponse" /\ messages[i].id = id}

\* The positions in `messages` of the status reports of module id that are
\* not suppressed: the hold flag `held` is down, or a response of id precedes
WrittenOf(messages, id, held) ==
    {i \in 1..Len(messages) :
        /\ messages[i].kind = "ECCStatus" /\ messages[i].id = id
        /\ ~held \/ \E r \in ResponsesOf(messages, id) : r < i}

Last(positions) == CHOOSE i \in positions : \A j \in positions : j <= i

\* C5: set_ecc_busy(id) makes the record of id read Busy and raises its hold
\* flag; handle_messages leaves the record of a held module as it is for
\* every status report of the module that no operation response of the
\* module precedes, clears the hold flag on an operation response whatever
\* its error code, and writes the status reports that follow; the record and
\* the hold flag of a module change with the messages of that module only.
C5_HoldFlagSuppression ==
    [][IF inbox'.pending # inbox.pending
       THEN \A id \in Ids :
               /\ ecc_holds'[id] = (ecc_holds[id] /\ ResponsesOf(inbox'.handled, id) = {})
               /\ ecc_status'[id] =
                     IF WrittenOf(inbox'.handled, id, ecc_holds[id]) = {}
                     THEN ecc_status[id]
                     ELSE inbox'.handled[Last(WrittenOf(inbox'.handled, id, ecc_holds[id]))].body
       ELSE \/ UNCHANGED sm_vars
            \/ \E id \in Ids :
                  /\ ecc_status' = [ecc_status EXCEPT ![id] = 6]
                  /\ ecc_holds' = [ecc_holds EXCEPT ![id] = TRUE]
                  /\ get_ecc_status(ecc_status', id) = "Busy"]_<<sm_vars, inbox, query, run_duration, graph>>

\* C5 witness: a held module whose record still reads Busy after the last
\* handle_messages handled a status report of the module
C5_Witness ==
    \E id \in Ids :
        /\ ecc_holds[id]
        /\ get_ecc_status(ecc_status, id) = "Busy"
        /\ \E i \in 1..Len(inbox.handled) :
              inbox.handled[i].kind = "ECCStatus" /\ inbox.handled[i].id = id

(***************************************************************************)
(* Properties of the envoys and of the embassy                             *)
(***************************************************************************)
\* C8: a status envoy that has not been cancelled never terminates; every
\* status request it makes is followed by a send, and after a failed request
\* what it sends is the Offline record tagged with its module id; the send
\* puts that message on the result channel and the envoy goes back to sleep.
C8_FailedPollSendsOffline ==
    [][\A id \in Ids :
          /\ (status_envoy[id] = "sleep" /\ ~cancelled) =>
                 status_envoy'[id] \in {"sleep", "send"}
          /\ (status_envoy[id] = "sleep" /\ status_out'[id] # status_out[id]) =>
                 status_envoy'[id] = "send"
          /\ (status_envoy[id] = "sleep" /\ status_envoy'[id] = "send"
                 /\ status_out'[id].failed) =>
                 status_out'[id].message =
                     Message("ECCStatus", id, ECCStatus_into_i32("Offline"))
          /\ (status_envoy[id] = "send" /\ status_envoy'[id] # "send") =>
                 /\ status_envoy'[id] = "sleep"
                 /\ results' = Append(results, status_out[id].message)]_vars

\* C8 witness: the Offline record of a failed status request is on the
\* result channel and its envoy is asleep again
C8_Witness ==
    \E id \in Ids :
        /\ status_envoy[id] = "sleep"
        /\ ~cancelled
        /\ results # <<>>
        /\ results[Len(results)] = Message("ECCStatus", id, 0)
        /\ remote[id] # 0

\* C9: a monitor envoy that gets an empty, malformed or server-error answer
\* to its status request sends the default record of its module and stays
\* alive.
C9_MonitorToleratesBadAnswer ==
    [][/\ \A id \in CoBoIds :
             (surveyor_envoy[id] = "sleep" /\ surveyor_out'[id] # surveyor_out[id]
                 /\ surveyor_out'[id].response \in {"empty", "malformed", "short"}) =>
                 /\ surveyor_envoy'[id] = "send"
                 /\ surveyor_out'[id].message = Message("Surveyor", id, "default")
       /\ \A id \in Ids :
             (sentry_envoy[id] = "sleep" /\ sentry_out'[id] # sentry_out[id]
                 /\ sentry_out'[id].response \in {"server_error", "malformed"}) =>
                 /\ sentry_envoy'[id] = "send"
                 /\ sentry_out'[id].message = Message("SentryStatus", id, "default")]_vars

\* C10: Embassy::shutdown never panics.
C10_ShutdownNeverPanics == ~panicked

(***************************************************************************)
(* Properties of the queries                                               *)
(***************************************************************************)
\* C18: get_system_ecc_status returns the status of the common state code
\* when all the module records hold the same state code, and Inconsistent
\* when two records differ.
C18_SystemStatusIsCommonOrInconsistent ==
    query.fn = "get_system_ecc_status" =>
        IF \A i, j \in Ids : ecc_status[i] = ecc_status[j]
        THEN query.value = ECCStatus_from_i32(ecc_status[MUTANT_ID])
        ELSE query.value = "Inconsistent"

C18_Witness ==
    /\ query.fn = "get_system_ecc_status"
    /\ query.value = "Inconsistent"
    /\ \A id \in CoBoIds : ecc_status[id] = ecc_status[0]
    /\ ecc_status[MUTANT_ID] # ecc_status[0]

\* C19: can_ecc_go_forward(id) of a front-end recorded Described is true iff
\* the master is recorded Prepared or Ready; of the master recorded Prepared
\* it is true iff every front-end is recorded Ready; in every other case it
\* is can_go_forward of the recorded status of id.
C19_ForwardGuardFollowsOrdering ==
    query.fn = "can_ecc_go_forward" =>
        LET id == query.id
            own == ECCStatus_from_i32(ecc_status[id])
            master == ECCStatus_from_i32(ecc_status[MUTANT_ID])
        IN  IF id # MUTANT_ID /\ own = "Described"
            THEN query.value <=> (master \in {"Prepared", "Ready"})
            ELSE IF id = MUTANT_ID /\ own = "Prepared"
            THEN query.value <=>
                    \A front \in CoBoIds : ECCStatus_from_i32(ecc_status[front]) = "Ready"
            ELSE query.value <=> (own \in {"Idle", "Described", "Prepared"})

C19_Witness ==
    /\ query.fn = "can_ecc_go_forward"
    /\ query.id = MUTANT_ID
    /\ ECCStatus_from_i32(ecc_status[MUTANT_ID]) = "Prepared"
    /\ \A front \in CoBoIds : ECCStatus_from_i32(ecc_status[front]) = "Ready"
    /\ query.value

\* C20: a status can go forward iff its forward operation is not Invalid,
\* and can go backward iff its backward operation is not Invalid.
C20_CanGoIffOperationValid ==
    query.fn = "can_go" =>
        /\ query.value.can_go_forward <=> (query.value.forward # "Invalid")
        /\ query.value.can_go_backward <=> (query.value.backward # "Invalid")

C20_Witness ==
    /\ query.fn = "can_go"
    /\ query.value.status = "Ready"
    /\ ~query.value.can_go_forward
    /\ query.value.can_go_backward

(***************************************************************************)
(* Properties of Embassy::poll_messages, startup and submit_message        *)
(***************************************************************************)
\* C12: once shutdown has returned, all the envoys having terminated,
\* poll_messages returns Ok with an empty batch.
C12_PollAfterShutdownIsEmptyOk ==
    (is_running /\ cancelled /\ handles = "None" /\ Idle /\ EnvoysAlive = {}) =>
        poll_messages = [ok |-> TRUE, messages |-> <<>>]

\* C14: startup called on a running embassy spawns no envoy and leaves the
\* routing table, the result channel, the cancel sender and the handles as
\* they are.
C14_StartupIsIdempotent ==
    [][(is_running /\ call_startup) =>
          UNCHANGED <<ecc_senders, results, cancel_some, cancelled, handles,
                      transition_envoy, status_envoy, surveyor_envoy>>]_vars

\* C13: while an envoy is alive, poll_messages returns Ok with the messages
\* of the result channel in their order, an empty batch when the channel is
\* empty, and leaves the channel empty.
C13_PollDrainsInOrder ==
    [][(query'.turn # query.turn /\ query'.fn = "poll_messages" /\ EnvoysAlive # {}) =>
          /\ query'.value = [ok |-> TRUE, messages |-> results]
          /\ results' = <<>>]_vars

C13_Witness ==
    /\ query.fn = "poll_messages"
    /\ query.value.ok
    /\ Len(query.value.messages) = 2
    /\ query.value.messages[1] # query.value.messages[2]
    /\ results = <<>>
    /\ EnvoysAlive # {}

\* C15: submit_message appends a command to the inbound channel registered
\* for its id (or returns the error of the send when the envoy of that
\* channel has ended) and changes no other channel; a message that is no
\* command, or whose id has no channel, changes no channel, does not panic
\* and returns Ok.
C15_SubmitRoutesById ==
    [][(query'.turn # query.turn /\ query'.fn = "submit_message") =>
          LET message == query'.value.message IN
          IF message.kind = "ECCOperation" /\ message.id \in DOMAIN ecc_senders
          THEN /\ \A id \in DOMAIN ecc_senders : id # message.id =>
                      ecc_senders'[id] = ecc_senders[id]
               /\ \/ /\ query'.value.result = "Ok"
                     /\ ecc_senders'[message.id] = Append(ecc_senders[message.id], message)
                  \/ /\ query'.value.result = "FailedSend"
                     /\ transition_envoy[message.id] = "done"
                     /\ ecc_senders'[message.id] = ecc_senders[message.id]
          ELSE /\ ecc_senders' = ecc_senders
               /\ query'.value.result = "Ok"
               /\ ~panicked']_vars

C15_Witness ==
    /\ query.fn = "submit_message"
    /\ query.value.message.kind = "ECCOperation"
    /\ query.value.message.id = NUMBER_OF_MODULES
    /\ query.value.result = "Ok"
    /\ is_running
    /\ \E id \in Ids : ecc_senders[id] # <<>>

\* C16: the inbound channel of a module is a queue: a submission appends
\* one command at its end, the envoy takes the command at its head, and
\* only when it holds no command and no response; and a command waiting in
\* the channel is not left behind, the envoy stays there to take it.
C16_CommandsQueueInOrder ==
    [][\A id \in DOMAIN ecc_senders :
          /\ ecc_senders'[id] # ecc_senders[id] =>
                \/ /\ Len(ecc_senders'[id]) = Len(ecc_senders[id]) + 1
                   /\ SubSeq(ecc_senders'[id], 1, Len(ecc_senders[id])) = ecc_senders[id]
                \/ /\ ecc_senders[id] # <<>>
                   /\ ecc_senders'[id] = Tail(ecc_senders[id])
                   /\ transition_envoy[id] = "recv"
                   /\ transition_out'[id] = Head(ecc_senders[id])
          /\ (ecc_senders'[id] # <<>> /\ ~cancelled') => transition_envoy'[id] # "done"]_vars

(***************************************************************************)
(* Properties of the cancellation and of the order of the messages         *)
(***************************************************************************)
\* C11: while shutdown waits for the envoy tasks, every envoy that has not
\* terminated can go on to the point where it observes the cancellation:
\* none is suspended on a send that the full result channel, which
\* nobody polls now, keeps from completing.
C11_CancelReachesEveryEnvoy ==
    (plan # <<>> /\ Head(plan).k = "join" /\ cancelled /\ Len(results) >= ResultCapacity) =>
        /\ \A id \in Ids : transition_envoy[id] # "send" /\ status_envoy[id] # "send"
        /\ \A id \in CoBoIds : surveyor_envoy[id] # "send"

\* C17: the messages of a module reach the result channel in the order in
\* which its envoys obtained them from the remote module: the status envoy
\* sends a report only if the report is not older than a response that the
\* transition envoy of the module has already sent, that is, while the
\* transition envoy holds no response, the report sent tells the state the
\* remote module is in.
C17_ModuleMessagesKeepOrder ==
    [][\A id \in Ids :
          (/\ status_envoy[id] = "send" /\ status_envoy'[id] = "sleep"
           /\ ~status_out[id].failed
           /\ transition_envoy[id] = "recv") =>
              status_out[id].message.body = remote[id]]_vars

(***************************************************************************)
(* The conversions of ECCStatus and ECCOperation (ecc_operation.rs).  A    *)
(* value of an enum is written by the name of its variant, a String by its *)
(* characters: the variant ErrorStat has the canonical name "Error".       *)
(***************************************************************************)
\* ErrorStat written by the name of its variant
ECCStatus_into_String_by_variant(value) == value

\* impl From<ECCStatus> for String
ECCStatus_into_String(value) ==
    CASE value = "Offline" -> "Offline"
      [] value = "Busy" -> "Busy"
      [] value = "Idle" -> "Idle"
      [] value = "Prepared" -> "Prepared"
      [] value = "Described" -> "Described"
      [] value = "Ready" -> "Ready"
      [] value = "Running" -> "Running"
      [] value = "ErrorStat" -> "Error"
      [] value = "Inconsistent" -> "Inconsistent"

\* impl TryFrom<String> for ECCStatus
ECCStatus_try_from_String(value) ==
    CASE value = "Offline" -> [ok |-> TRUE, value |-> "Offline"]
      [] value = "Busy" -> [ok |-> TRUE, value |-> "Busy"]
      [] value = "Idle" -> [ok |-> TRUE, value |-> "Idle"]
      [] value = "Prepared" -> [ok |-> TRUE, value |-> "Prepared"]
      [] value = "Described" -> [ok |-> TRUE, value |-> "Described"]
      [] value = "Ready" -> [ok |-> TRUE, value |-> "Ready"]
      [] value = "Running" -> [ok |-> TRUE, value |-> "Running"]
      [] value = "Error" -> [ok |-> TRUE, value |-> "ErrorStat"]
      [] value = "Inconsistent" -> [ok |-> TRUE, value |-> "Inconsistent"]
      [] OTHER -> [ok |-> FALSE, value |-> <<"BadString", value>>]

\* impl From<ECCOperation> for String
ECCOperation_into_String(value) ==
    CASE value = "Describe" -> "Describe"
      [] value = "Prepare" -> "Prepare"
      [] value = "Configure" -> "Configure"
      [] value = "Start" -> "Start"
      [] value = "Undo" -> "Undo"
      [] value = "Breakup" -> "Breakup"
      [] value = "Stop" -> "Stop"
      [] value = "Invalid" -> "Invalid"

\* impl TryFrom<String> for ECCOperation
ECCOperation_try_from_String(value) ==
    CASE value = "Describe" -> [ok |-> TRUE, value |-> "Describe"]
      [] value = "Prepare" -> [ok |-> TRUE, value |-> "Prepare"]
      [] value = "Configure" -> [ok |-> TRUE, value |-> "Configure"]
      [] value = "Start" -> [ok |-> TRUE, value |-> "Start"]
      [] value = "Undo" -> [ok |-> TRUE, value |-> "Undo"]
      [] value = "Breakup" -> [ok |-> TRUE, value |-> "Breakup"]
      [] value = "Stop" -> [ok |-> TRUE, value |-> "Stop"]
      [] value = "Invalid" -> [ok |-> TRUE, value |-> "Invalid"]
      [] OTHER -> [ok |-> FALSE, value |-> <<"BadString", value>>]

\* Strings handed to the parsers: the canonical names of the statuses and of
\* the operations, and some strings that are no canonical name
Strings ==
    {ECCStatus_into_String(status) : status \in ECCStatusValues}
        \cup {ECCOperation_into_String(operation) : operation \in ECCOperationValues}
        \cup {"", "idle", "IDLE", "ErrorStat", "Idle ", "describe", "Unknown"}

\* One conversion, or one conversion and the one back: query.fn tells which,
\* query.value holds the input and every value produced
call_convert ==
    /\ \/ \E status \in ECCStatusValues :
             query' = Asked("ECCStatus_i32", 0,
                            [from |-> status,
                             into |-> ECCStatus_into_i32(status),
                             back |-> ECCStatus_from_i32(ECCStatus_into_i32(status))])
       \/ \E status \in ECCStatusValues :
             query' = Asked("ECCStatus_String", 0,
                            [from |-> status,
                             into |-> ECCStatus_into_String(status),
                             back |-> ECCStatus_try_from_String(
                                          ECCStatus_into_String(status))])
       \/ \E operation \in ECCOperationValues :
             query' = Asked("ECCOperation_String", 0,
                            [from |-> operation,
                             into |-> ECCOperation_into_String(operation),
                             back |-> ECCOperation_try_from_String(
                                          ECCOperation_into_String(operation))])
       \/ \E string \in Strings :
             query' = Asked("ECCStatus_try_from", 0,
                            [from |-> string,
                             into |-> ECCStatus_try_from_String(string)])
       \/ \E string \in Strings :
             query' = Asked("ECCOperation_try_from", 0,
                            [from |-> string,
                             into |-> ECCOperation_try_from_String(string)])
    /\ UNCHANGED <<sm_vars, envoy_vars, embassy_vars, channel_vars, control_vars,
                   inbox, run_duration, graph>>

SpecConvert == Init /\ [][call_convert]_vars

(***************************************************************************)
(* Properties of the conversions                                           *)
(***************************************************************************)
\* C21: for every ECCStatus with a valid integer code (Offline, Idle,
\* Described, Prepared, Ready, Running, Busy), the status of the integer
\* code of the status is the status itself.
C21_IntegerCodeRoundTrip ==
    (/\ query.fn = "ECCStatus_i32"
     /\ query.value.from \in {"Offline", "Idle", "Described", "Prepared",
                                "Ready", "Running", "Busy"}) =>
        query.value.back = query.value.from

\* C22: parsing the canonical string of an ECCStatus or of an ECCOperation
\* gives the value back, and parsing a string that is no canonical name of
\* the type gives the error BadString.
C22_StringRoundTrip ==
    LET StatusNames ==
            {"Offline", "Busy", "Idle", "Prepared", "Described", "Ready",
             "Running", "Error", "Inconsistent"}
        OperationNames ==
            {"Describe", "Prepare", "Configure", "Start", "Undo", "Breakup",
             "Stop", "Invalid"}
        BadString == [ok |-> FALSE, value |-> <<"BadString", query.value.from>>]
    IN  /\ query.fn \in {"ECCStatus_String", "ECCOperation_String"} =>
              query.value.back = [ok |-> TRUE, value |-> query.value.from]
        /\ (query.fn = "ECCStatus_try_from" /\ query.value.from \notin StatusNames) =>
              query.value.into = BadString
        /\ (query.fn = "ECCOperation_try_from" /\ query.value.from \notin OperationNames) =>
              query.value.into = BadString

C22_Witness ==
    /\ query.fn = "ECCStatus_String"
    /\ query.value.from = "ErrorStat"
    /\ query.value.into = "Error"
    /\ query.value.back = [ok |-> TRUE, value |-> "ErrorStat"]

(***************************************************************************)
(* StatusManager::reset, called by EnvoyApp::disconnect, beside the other  *)
(* operations of the StatusManager.                                        *)
(***************************************************************************)
\* reset on the pair sm = <<ecc_status, ecc_holds>>: the loops assign the
\* default to every record of ecc_status and of sentry_status
reset(sm) == <<[id \in Ids |-> 0], sm[2]>>

\* status_manager.reset()
call_reset ==
    /\ LET sm == reset(<<ecc_status, ecc_holds>>) IN
          ecc_status' = sm[1] /\ ecc_holds' = sm[2]
    /\ inbox' = [inbox EXCEPT !.handled = <<>>]
    /\ query' = Asked("reset", 0, "done")
    /\ UNCHANGED <<envoy_vars, embassy_vars, channel_vars, control_vars, run_duration, graph>>

SpecReset == InitStatus /\ [][NextStatus \/ call_reset]_vars

\* C23: reset() leaves the StatusManager as StatusManager::new() makes it:
\* every module record is the default and no hold flag is raised.
C23_ResetRestoresCreation ==
    [][(query'.turn # query.turn /\ query'.fn = "reset") =>
          /\ ecc_status' = [id \in Ids |-> 0]
          /\ ecc_holds' = [id \in Ids |-> FALSE]]_vars

(***************************************************************************)
(* EnvoyApp::start_run from its first statement: the run number is checked *)
(* by execute(CommandName::CheckRunExists, ..), a shell script run on the  *)
(* machine of the first front-end, before the master is re-configured.     *)
(***************************************************************************)
\* The Start button: execute returns what the script returned (Success when
\* the data of the run exists, Failure when it does not) or CouldNotExecute
\* when the script could not be run; the match returns on Success and on
\* CouldNotExecute and goes on with the start on Failure
call_start_run_checked ==
    /\ is_system_ready(ecc_status)
    /\ \E status \in {"Success", "Failure", "CouldNotExecute"} :
          /\ Call("start_run", IF status = "Failure" THEN start_run ELSE <<>>)
          /\ query' = Asked("CheckRunExists", 0, status)
    /\ UNCHANGED <<entry_op, sm_vars, envoy_vars, embassy_vars, channel_vars,
                   inbox, run_duration, graph>>

SpecRun ==
    InitStart /\ [][\/ startup
                    \/ EnvoyNext
                    \/ transition_ecc_step
                    \/ submit_step
                    \/ wait_step
                    \/ update_poll
                    \/ call_start_run_checked]_vars

\* C24: when the run number check returns Failure or CouldNotExecute,
\* start_run goes on to re-configure the master and start the modules; it
\* returns at once on Success only.
C24_CheckFailureAndNoExecuteProceed ==
    [][(query'.turn # query.turn /\ query'.fn = "CheckRunExists") =>
          IF query'.value = "Success"
          THEN plan' = <<>>
          ELSE plan' = start_run /\ fn' = "start_run"]_vars

(***************************************************************************)
(* reconfigure_mutant_blocking, called as the start of a run calls it,     *)
(* while the whole system is recorded Ready: the envoys, the frame loop    *)
(* and the call, with the remote ECC servers configured (Ready) when the   *)
(* program starts.                                                         *)
(***************************************************************************)
call_reconfigure_mutant_blocking ==
    /\ is_system_ready(ecc_status)
    /\ Call("reconfigure_mutant_blocking", reconfigure_mutant_blocking)
    /\ UNCHANGED <<entry_op, sm_vars, envoy_vars, embassy_vars, channel_vars,
                   inbox, query, run_duration, graph>>

SpecReconfigure ==
    InitStart /\ [][\/ startup
                    \/ EnvoyNext
                    \/ transition_ecc_step
                    \/ wait_step
                    \/ update_poll
                    \/ call_reconfigure_mutant_blocking]_vars

\* A step of reconfigure_mutant_blocking whose first command is `regress`:
\* the first command delivered goes to the master and is `regress`, the
\* first loop breaks with the master recorded Prepared, the second command
\* is Configure to the master, delivered while the master is recorded
\* Prepared, the call returns by the break of the second loop with the
\* master recorded Ready; no command is delivered to a front-end, no hold
\* flag of a front-end is raised and transition_ecc writes no front-end
\* record.
ReconfigureStep(regress) ==
    fn = "reconfigure_mutant_blocking" =>
        /\ \A id \in CoBoIds :
              /\ ~Delivers(id)
              /\ ecc_holds'[id] => ecc_holds[id]
              /\ Head(plan).k = "tx" => ecc_status'[id] = ecc_status[id]
        /\ Delivers(MUTANT_ID) =>
              LET command == ecc_senders'[MUTANT_ID][Len(ecc_senders'[MUTANT_ID])].body IN
              IF sent = <<>>
              THEN command = regress
              ELSE /\ sent = <<(<<MUTANT_ID, regress>>)>>
                   /\ command = "Configure"
                   /\ get_ecc_status(ecc_status, MUTANT_ID) = "Prepared"
        /\ Breaks("is_mutant_prepared") =>
              /\ sent = <<(<<MUTANT_ID, regress>>)>>
              /\ get_ecc_status(ecc_status', MUTANT_ID) = "Prepared"
        /\ Breaks("is_mutant_ready") =>
              /\ sent = <<(<<MUTANT_ID, regress>>), (<<MUTANT_ID, "Configure">>)>>
              /\ get_ecc_status(ecc_status', MUTANT_ID) = "Ready"
        /\ fn' = "idle" => Breaks("is_mutant_ready")

\* C25 as stated: reconfigure_mutant_blocking, called with the whole system
\* recorded Ready, submits Undo to the master, waits until the master is
\* recorded Prepared, submits Configure to the master and returns only when
\* the master is recorded Ready, and touches no front-end.
C25_ReconfigureSubmitsUndo == [][ReconfigureStep("Undo")]_vars

\* C25 amended: the command that regresses the master is Breakup, the
\* backward operation of Ready; the rest of the cycle is as stated.
C25_ReconfigureCyclesMasterAlone == [][ReconfigureStep("Breakup")]_vars

\* C25 witness: both commands were delivered to the master, the master has
\* been configured again and the call is in its second loop
C25_Witness ==
    /\ fn = "reconfigure_mutant_blocking"
    /\ sent = <<(<<MUTANT_ID, "Breakup">>), (<<MUTANT_ID, "Configure">>)>>
    /\ plan = <<Wait("is_mutant_ready")>>
    /\ remote[MUTANT_ID] = 4
    /\ \A id \in CoBoIds : get_ecc_status(ecc_status, id) = "Ready" /\ ~ecc_holds[id]

(***************************************************************************)
(* forward_transition_all called on any records of the StatusManager, not  *)
(* only while the Progress button is enabled, the embassy connected or     *)
(* not: the call with its transition_ecc and its blocking loops.           *)
(***************************************************************************)
\* The last arm logging the operation and returning nothing
enter_forward_transition_all_logging ==
    LET operation == get_forward_operation(get_system_ecc_status(ecc_status)) IN
    /\ Idle
    /\ query' = Asked("forward_transition_all", 0, operation)
    /\ IF operation \in {"Describe", "Prepare", "Configure"}
       THEN /\ Call("forward_transition_all", forward_transition_all(operation))
            /\ entry_op' = IF forward_transition_all(operation) = <<>> THEN "none" ELSE operation
       ELSE /\ ret' = "none"
            /\ UNCHANGED <<plan, fn, entry_op, sent, panicked>>
    /\ UNCHANGED <<sm_vars, envoy_vars, embassy_vars, channel_vars, inbox, run_duration, graph>>

\* forward_transition_all from its first statement: the match on the
\* forward operation of the system status, whose last arm returns
\* Err(EmbassyError::InvalidTransition(e))
enter_forward_transition_all ==
    LET operation == get_forward_operation(get_system_ecc_status(ecc_status)) IN
    /\ Idle
    /\ query' = Asked("forward_transition_all", 0, operation)
    /\ IF operation \in {"Describe", "Prepare", "Configure"}
       THEN /\ Call("forward_transition_all", forward_transition_all(operation))
            /\ entry_op' = IF forward_transition_all(operation) = <<>> THEN "none" ELSE operation
       ELSE /\ ret' = "InvalidTransition"
            /\ UNCHANGED <<plan, fn, entry_op, sent, panicked>>
    /\ UNCHANGED <<sm_vars, envoy_vars, embassy_vars, channel_vars, inbox, run_duration, graph>>

SpecForward ==
    InitQuery /\ [][\/ startup
                    \/ transition_ecc_step
                    \/ wait_step
                    \/ enter_forward_transition_all]_vars

\* C26: forward_transition_all called while the system status has no
\* forward operation among Describe, Prepare and Configure returns the
\* error InvalidTransition, delivers no command and leaves every module
\* record and every hold flag as it was.
C26_InvalidTransitionChangesNothing ==
    [][(/\ query'.turn # query.turn
        /\ query'.fn = "forward_transition_all"
        /\ ~can_go_forward(get_system_ecc_status(ecc_status))) =>
          /\ ret' = "InvalidTransition"
          /\ plan' = <<>> /\ fn' = "idle"
          /\ ecc_senders' = ecc_senders
          /\ ecc_status' = ecc_status
          /\ ecc_holds' = ecc_holds]_vars

\* C26 witness: the call returned InvalidTransition on a connected embassy
\* whose modules are all recorded Ready
C26_Witness ==
    /\ query.fn = "forward_transition_all"
    /\ ret = "InvalidTransition"
    /\ is_running
    /\ is_system_ready(ecc_status)

(***************************************************************************)
(* A blocking helper called on an embassy that was shut down: startup and  *)
(* shutdown, the envoys, the frame loop and reconfigure_mutant_blocking,   *)
(* with the remote ECC servers configured (Ready) when the program starts. *)
(***************************************************************************)
SpecShutdown ==
    InitStart /\ [][\/ startup
                    \/ shutdown
                    \/ join_step
                    \/ update_poll
                    \/ EnvoyNext
                    \/ \E id \in Ids :
                          \/ wait_for_transition_cancel(id)
                          \/ wait_check_status_cancel(id)
                    \/ \E id \in CoBoIds : surveyor_cancel(id)
                    \/ call_reconfigure_mutant_blocking
                    \/ transition_ecc_step
                    \/ wait_step]_vars

\* C27: a poll_embassy of a blocking loop that finds the result channel
\* disconnected ends the loop: the helper returns an error to its caller.
C27_PollErrorEndsTheLoop ==
    [][(/\ plan # <<>>
        /\ Head(plan).k = "wait"
        /\ is_running
        /\ ~poll_messages.ok) =>
          /\ plan' = <<>>
          /\ ret' # "none"]_vars

(***************************************************************************)
(* Properties of the monitors and of the run clock                         *)
(***************************************************************************)
\* C28: no monitor envoy is spawned for the master, every monitor report in
\* the result channel carries the id of a front-end, and handle_messages
\* never writes past the end of the monitor records.
C28_MonitorReportsInRange ==
    /\ sentry_envoy[MUTANT_ID] = "none"
    /\ \A i \in 1..Len(results) :
          results[i].kind \in {"Surveyor", "SentryStatus"} =>
              results[i].id < NUMBER_OF_MODULES - 1
    /\ ~panicked

(***************************************************************************)
(* The duration of the run shown by the config panel (config_panel.rs,     *)
(* time_format.rs).  The arithmetic is on u64: a subtraction below zero    *)
(* panics in a build with overflow checks and wraps around 2^64 in a build *)
(* without them.  A value that wrapped, v + 2^64 for a difference v < 0,   *)
(* is written [wrapped |-> TRUE, value |-> v]; a value that did not wrap   *)
(* is written [wrapped |-> FALSE, value |-> v].                            *)
(***************************************************************************)
\* pretty_ellapsed_time of time_format.rs, the one config_panel.rs calls:
\* the three fields of the string hrs:mins:remainder, or the panic.  The
\* floor of the f64 quotient is the integer quotient for these durations.
pretty_ellapsed_time(seconds, overflow_checks) ==
    LET hrs == seconds \div 3600
        remainder == seconds - hrs * 3600
        mins == seconds \div 60
        last == remainder - mins * 60
    IN  IF last < 0 /\ overflow_checks
        THEN [panic |-> TRUE, hrs |-> hrs, mins |-> mins,
              remainder |-> [wrapped |-> FALSE, value |-> remainder]]
        ELSE [panic |-> FALSE, hrs |-> hrs, mins |-> mins,
              remainder |-> [wrapped |-> last < 0, value |-> last]]

\* A run is under way (every module recorded Running) or not, for any time
InitTime ==
    /\ \E state \in {1, 5} : ConstructedWith([id \in Ids |-> state], state)
    /\ inbox = NoInbox
    /\ run_duration \in 0..MaxSeconds
    /\ graph = NoGraph

\* The label of the config panel: the duration is zero while the system is
\* not running
call_pretty_ellapsed_time ==
    /\ \E overflow_checks \in BOOLEAN :
          LET seconds == IF is_system_running(ecc_status) THEN run_duration ELSE 0 IN
          query' = Asked("pretty_ellapsed_time", seconds,
                         pretty_ellapsed_time(seconds, overflow_checks))
    /\ UNCHANGED <<sm_vars, envoy_vars, embassy_vars, channel_vars, control_vars,
                   inbox, run_duration, graph>>

SpecTime == InitTime /\ [][call_pretty_ellapsed_time]_vars

\* C29: pretty_ellapsed_time(seconds) returns without underflow a string
\* hh:mm:ss whose minutes and seconds are below 60 and whose fields add up
\* to the seconds given: hh * 3600 + mm * 60 + ss = seconds.
C29_PrettyTimeFieldsAddUp ==
    query.fn = "pretty_ellapsed_time" =>
        /\ ~query.value.panic
        /\ ~query.value.remainder.wrapped
        /\ query.value.mins < 60
        /\ query.value.remainder.value < 60
        /\ query.value.hrs * 3600 + query.value.mins * 60
              + query.value.remainder.value = query.id

(***************************************************************************)
(* transition_ecc called with the lists of ids its callers build and with  *)
(* the empty list, on any records of the StatusManager and an embassy      *)
(* connected or not.                                                       *)
(***************************************************************************)
\* transition_ecc(embassy, status_manager, ids, is_forward)
enter_transition_ecc ==
    /\ \E ids \in {<<>>, <<MUTANT_ID>>, all_ids_but_mutant, all_ids},
          is_forward \in BOOLEAN :
          /\ Call("transition_ecc", transition_ecc(ids, is_forward))
          /\ query' = Asked("transition_ecc", Len(ids), "called")
    /\ UNCHANGED <<entry_op, sm_vars, envoy_vars, embassy_vars, channel_vars,
                   inbox, run_duration, graph>>

SpecTransition ==
    InitQuery /\ [][\/ startup
                    \/ enter_transition_ecc
                    \/ transition_ecc_step]_vars

Unparsable == -1

\* message.try_into(): the kind matches in every arm that calls it, so the
\* result is that of serde_yaml::from_str(&self.response)
try_into(message) ==
    IF message.body = Unparsable
    THEN [ok |-> FALSE, resp |-> 0]
    ELSE [ok |-> TRUE, resp |-> message.body]

\* The arms of the match that call try_into
Deserialized == {"ECCOpResponse", "ECCStatus", "SentryStatus"}

\* handle_messages were the error kept until the loop has ended
RECURSIVE handle_messages_result_at_end(_, _)
handle_messages_result_at_end(sm, messages) ==
    IF messages = <<>>
    THEN [sm |-> sm, result |-> "Ok"]
    ELSE IF Head(messages).kind \in Deserialized /\ ~try_into(Head(messages)).ok
    THEN [sm |-> handle_messages_result_at_end(sm, Tail(messages)).sm, result |-> "Err"]
    ELSE handle_messages_result_at_end(handle_message(sm, Head(messages)), Tail(messages))

\* for message in messages { match message.kind { .. try_into()? .. } } Ok(())
RECURSIVE handle_messages_result(_, _)
handle_messages_result(sm, messages) ==
    IF messages = <<>>
    THEN [sm |-> sm, result |-> "Ok"]
    ELSE IF Head(messages).kind \in Deserialized /\ ~try_into(Head(messages)).ok
    THEN [sm |-> sm, result |-> "Err"]
    ELSE handle_messages_result(handle_message(sm, Head(messages)), Tail(messages))

\* The status reports, operation responses and sentry reports of the
\* modules, well formed or not, and a message of a kind no arm reads
ParsedMessages ==
    {compose_ecc_status(state, id) : state \in {4, Unparsable}, id \in Ids}
        \cup {compose_ecc_response(error_code, id) : error_code \in {0, Unparsable}, id \in Ids}
        \cup {compose_sentry_status(Unparsable, id) : id \in {0}}
        \cup {compose_ecc_op(Unparsable, MUTANT_ID)}

InitParse ==
    /\ Constructed(1)
    /\ run_duration = 0 /\ graph = NoGraph
    /\ inbox \in {[pending |-> batch, handled |-> <<>>] :
                     batch \in UNION {[1..n -> ParsedMessages] : n \in 0..MaxBatch}}

\* status_manager.handle_messages(&messages) on the next messages, with the
\* Result it returns
call_handle_messages_result ==
    /\ \E n \in 1..Len(inbox.pending) :
          LET messages == SubSeq(inbox.pending, 1, n)
              out == handle_messages_result(<<ecc_status, ecc_holds>>, messages)
          IN  /\ ecc_status' = out.sm[1]
              /\ ecc_holds' = out.sm[2]
              /\ inbox' = [pending |-> SubSeq(inbox.pending, n + 1, Len(inbox.pending)),
                           handled |-> messages]
              /\ query' = Asked("handle_messages", n, out.result)
    /\ UNCHANGED <<envoy_vars, embassy_vars, channel_vars, control_vars, run_duration, graph>>

SpecParse == InitParse /\ [][call_set_ecc_busy \/ call_handle_messages_result]_vars

\* The messages of a batch before its first message whose body does not
\* parse into the type of its kind (the whole batch when there is none)
ParsedPrefix(messages) ==
    LET bad == {i \in 1..Len(messages) :
                   messages[i].kind \in Deserialized /\ messages[i].body = Unparsable}
    IN  IF bad = {}
        THEN messages
        ELSE SubSeq(messages, 1, (CHOOSE i \in bad : \A j \in bad : i <= j) - 1)

\* C31: handle_messages returns an error only when a message of the batch
\* has a body that does not deserialize into the type of its kind, and then
\* the messages before the first such message have been applied and the
\* messages after it have not: the StatusManager is what handling the
\* messages before it alone makes of it.
C31_ErrorStopsAtFirstBadBody ==
    [][(query'.turn # query.turn /\ query'.fn = "handle_messages") =>
          LET messages == inbox'.handled IN
          /\ query'.value = "Err" <=> ParsedPrefix(messages) # messages
          /\ <<ecc_status', ecc_holds'>> =
                handle_messages(<<ecc_status, ecc_holds>>, ParsedPrefix(messages))]_vars

\* An error returned by a batch of two whose status report, before the bad
\* body, was applied
C31_Witness ==
    /\ query.fn = "handle_messages"
    /\ query.value = "Err"
    /\ Len(inbox.handled) = 2
    /\ inbox.handled[1] = compose_ecc_status(4, MUTANT_ID)
    /\ inbox.handled[2].body = Unparsable
    /\ ecc_status[MUTANT_ID] = 4


(***************************************************************************)
(* The operation of the commands of one forward_transition_all: the        *)
(* Progress and the Regress button of the whole system, the frame loop and *)
(* the two envoys of every module, the status envoy of the first          *)
(* front-end being free to send its report any time after it obtained it.  *)
(* The remote ECC servers are Described when the program starts.           *)
(***************************************************************************)
InitStale == Constructed(2) /\ inbox = NoInbox /\ run_duration = 0 /\ graph = NoGraph

SpecStale ==
    /\ InitStale
    /\ [][\/ startup
          \/ EnvoyNext
          \/ wait_check_status_tick(0)
          \/ wait_check_status_send(0)
          \/ transition_ecc_step
          \/ wait_step
          \/ update_poll
          \/ call_forward_transition_all
          \/ (can_go_backward(get_system_ecc_status(ecc_status))
                /\ call_backward_transition_all)]_vars

\* C32: every command delivered within one forward_transition_all call is
\* the operation matched at its entry: Prepare for the master and for every
\* front-end commanded in the Prepare branch, Configure for every module
\* commanded in the Configure branch.
C32_CommandsAreEntryOperation ==
    [][(entry_op = "Prepare" \/ entry_op = "Configure") =>
          \A id \in Ids :
              Len(ecc_senders'[id]) > Len(ecc_senders[id]) =>
                  ecc_senders'[id][Len(ecc_senders'[id])].body = entry_op]_vars


(***************************************************************************)
(* The hold flag of a module with commands under way: the Start button     *)
(* ends with the Start of the master, submitted by submit_message, and the *)
(* Regress button of a module of the ECC panel submits the backward        *)
(* operation of its record through transition_ecc.  The remote ECC servers *)
(* are Ready when the program starts.                                      *)
(***************************************************************************)
\* The Regress button of the row of one module, enabled while the record
\* of the module can go backward; transition_ecc is called with the rows
\* clicked in the frame
regress_module ==
    /\ \E id \in Ids :
          /\ can_go_backward(get_ecc_status(ecc_status, id))
          /\ Call("transition_ecc", transition_ecc(<<id>>, FALSE))
    /\ UNCHANGED <<entry_op, sm_vars, envoy_vars, embassy_vars, channel_vars, inbox,
                   query, run_duration, graph>>

SpecHold ==
    InitStart /\ [][\/ startup
                    \/ EnvoyNext
                    \/ transition_ecc_step
                    \/ submit_step
                    \/ wait_step
                    \/ update_poll
                    \/ call_start_run
                    \/ regress_module]_vars

\* C33: while a command submitted through transition_ecc for a module is
\* still waiting in the inbound channel of its envoy (its response cannot
\* have been handled), the hold flag of the module is raised and its record
\* reads Busy.  Here transition_ecc submits backward operations only and
\* the Start commands are the ones submitted directly.
C33_HoldWhileCommandOutstanding ==
    is_running =>
        \A id \in Ids :
            (\E i \in 1..Len(ecc_senders[id]) : ecc_senders[id][i].body # "Start") =>
                /\ ecc_holds[id]
                /\ get_ecc_status(ecc_status, id) = "Busy"


(***************************************************************************)
(* A submit_message that waits: blocking_send on the inbound channel of an *)
(* envoy returns when the envoy takes a command or drops its receiver.     *)
(* stop_mutant_blocking called while the system is recorded Running, the   *)
(* frame loop, the status envoys and the transition envoy of the master,   *)
(* with the scheduling of the runtime: an envoy task that can take a step, *)
(* and the control thread when it can, eventually does.                    *)
(***************************************************************************)
SpecStopFair ==
    /\ InitStop
    /\ [][\/ startup
          \/ \E id \in Ids : wait_check_status(id)
          \/ wait_for_transition_recv(MUTANT_ID)
          \/ wait_for_transition_send(MUTANT_ID)
          \/ submit_step
          \/ wait_step
          \/ update_poll
          \/ call_stop_mutant_blocking]_vars
    /\ WF_vars(wait_for_transition_recv(MUTANT_ID))
    /\ WF_vars(wait_for_transition_send(MUTANT_ID))
    /\ WF_vars(submit_step)
    /\ WF_vars(wait_step)
    /\ WF_vars(update_poll)

\* The control thread is inside a submit_message whose blocking_send waits
\* for room in the inbound channel
SubmitWaits ==
    /\ plan # <<>> /\ ~panicked
    /\ Head(plan).k = "submit"
    /\ submit_blocked(compose_ecc_op(Head(plan).op, Head(plan).id))

\* C34: a submit_message that waits on a full inbound channel eventually
\* returns, whatever the state of the result channel.
C34_BlockedSubmitReturns == SubmitWaits ~> ~SubmitWaits


(***************************************************************************)
(* Termination of forward_transition_all.  The remote calls resolve: every *)
(* command is executed and answered, every status request is answered     *)
(* with the state of the server.  The runtime schedules every envoy task   *)
(* that can take a step, a send on the result channel gets its turn        *)
(* whenever the channel is drained again and again (the waiters of a tokio *)
(* channel are served in order), and the control thread runs its loop.     *)
(***************************************************************************)
SpecForwardFair ==
    /\ Init
    /\ [][\/ startup
          \/ \E id \in Ids :
                \/ wait_for_transition_recv(id) /\ remote'[id] # remote[id]
                \/ wait_for_transition_send(id)
                \/ wait_check_status(id)
                      /\ results' = Append(results, compose_ecc_status(remote[id], id))
          \/ transition_ecc_step
          \/ wait_step
          \/ update_poll
          \/ call_forward_transition_all]_vars
    /\ \A id \in Ids :
          /\ WF_vars(wait_for_transition_recv(id) /\ remote'[id] # remote[id])
          /\ SF_vars(wait_for_transition_send(id))
          /\ SF_vars(wait_check_status(id)
                        /\ results' = Append(results, compose_ecc_status(remote[id], id)))
    /\ WF_vars(transition_ecc_step)
    /\ WF_vars(wait_step)

\* C35: a forward_transition_all that took the Prepare or the Configure
\* branch returns.
C35_ForwardTransitionAllReturns ==
    (entry_op = "Prepare" \/ entry_op = "Configure") ~> (entry_op = "none")

\* Both branches have returned: every server was brought to Ready, the
\* master by the last command of the Configure branch
C35_Witness ==
    /\ Idle
    /\ fn = "idle"
    /\ \A id \in Ids : remote[id] = 4


(***************************************************************************)
(* The messages of the result channel across a poll                        *)
(***************************************************************************)
\* C36: poll_messages loses no message: the messages the result channel
\* held when it was called are the batch it returns, followed by what it
\* left in the channel.
C36_PollLosesNoMessage ==
    [][(query'.turn # query.turn /\ query'.fn = "poll_messages") =>
          results = query'.value.messages \o results']_vars


(***************************************************************************)
(* The embassy after shutdown                                              *)
(***************************************************************************)
\* Embassy::number_of_tasks: the length of the handles, two ECC envoys per
\* module and a surveyor envoy per front-end, or 0 without handles
number_of_tasks(h) ==
    IF h = "Some" THEN 2 * NUMBER_OF_MODULES + (NUMBER_OF_MODULES - 1) ELSE 0

\* C37: when shutdown returns, the embassy reports that it is not running
\* and that it has no task, as it does before its first startup.
C37_ShutdownRestoresNotRunning ==
    [][(fn = "shutdown" /\ fn' = "idle") =>
          /\ ~is_running'
          /\ number_of_tasks(handles') = 0]_vars


(***************************************************************************)
(* RateGraph (ui/rate_graph.rs and its private copy in ui/graph_manager.rs):*)
(* the points of one plotted line, oldest first, and the number of points  *)
(* the graph is asked to keep.  max_points is a usize that the UI edits    *)
(* with an unclamped DragValue, zero included.                             *)
(***************************************************************************)
\* VecDeque::pop_front: removes the oldest point, does nothing when empty
pop_front(points) == IF points = <<>> THEN points ELSE Tail(points)

\* RateGraph::add_point
add_point(g, rate) ==
    LET kept == IF Len(g.points) = g.max_points THEN pop_front(g.points)
                ELSE g.points
    IN  [g EXCEPT !.points = Append(kept, rate)]

\* RateGraph::reset
RateGraph_reset(g) == [g EXCEPT !.points = <<>>]

\* RateGraph::change_max_points, as GraphManager::set_max_points calls it
change_max_points(g, max_points) ==
    RateGraph_reset([g EXCEPT !.max_points = max_points])

Rates == 1..MaxRate

InitGraph ==
    /\ Constructed(1)
    /\ inbox = NoInbox
    /\ run_duration = 0
    /\ graph = NoGraph

graph_unchanged ==
    UNCHANGED <<ecc_status, ecc_holds, is_running, cancel_some,
                envoy_reciever_some, cancelled, handles, ecc_senders, results,
                transition_envoy, transition_out, status_envoy, status_out,
                surveyor_envoy, surveyor_out, sentry_envoy, sentry_out, remote,
                plan, fn, entry_op, ret, sent, panicked, inbox, run_duration>>

\* GraphManager::update adds the data rate of a surveyor status; the length
\* the model lets a graph reach is capped one above MaxPoints
call_add_point ==
    /\ Len(graph.points) <= MaxPoints
    /\ \E rate \in Rates :
          /\ graph' = add_point(graph, rate)
          /\ query' = Asked("add_point", rate, "none")
    /\ graph_unchanged

call_graph_reset ==
    /\ graph' = RateGraph_reset(graph)
    /\ query' = Asked("reset", 0, "none")
    /\ graph_unchanged

\* The DragValue of the graph panel hands over any usize
call_change_max_points ==
    /\ \E max_points \in 0..MaxPoints :
          /\ graph' = change_max_points(graph, max_points)
          /\ query' = Asked("change_max_points", max_points, "none")
    /\ graph_unchanged

SpecGraph ==
    InitGraph /\ [][call_add_point \/ call_graph_reset \/ call_change_max_points]_vars

\* C38: RateGraph is a bounded queue: after any add_point, reset or
\* change_max_points the stored points never exceed max_points, and an
\* add_point on a graph at capacity drops exactly the oldest point and
\* appends the new one.
C38_GraphIsBoundedQueue ==
    [][/\ Len(graph'.points) <= graph'.max_points
       /\ (/\ query'.turn # query.turn
           /\ query'.fn = "add_point"
           /\ Len(graph.points) = graph.max_points)
          => graph'.points = Tail(graph.points) \o <<query'.id>>]_vars
====
